---- MODULE Spec2Model ----
(***************************************************************************)
(* A model of the 3D viewer: the View3D scene session (view-3d.tsx), the   *)
(* three.js helpers it calls (three-setup.ts) and the Miniatura3D          *)
(* thumbnail cache.                                                        *)
(*                                                                         *)
(* Strings are sequences of one-character strings, so that split, trim and *)
(* toLowerCase are computed as the code computes them.  Geometry is kept   *)
(* on the y axis, the axis normalizeModelSizeAndPosition treats specially: *)
(* a mesh is an interval [lo, hi] and an object carries the y position of  *)
(* its root.                                                               *)
(***************************************************************************)
EXTENDS Integers, Sequences, FiniteSets, TLC

(* ------------------------------ bounds -------------------------------- *)

\* Number of setup-effect runs (sessions) of one View3D instance.
MaxSessions == 2

\* Number of thumbnail generations one Miniatura3D may start.
MaxGenerations == 2

\* The number of render ticks followed per run of the setup effect.
MaxTicks == 2

\* The number of runs of VisualizadorModal's load effect.
MaxModalRuns == 2

\* The number of loadSTL calls followed per VisualizadorSTL.
MaxStlLoads == 3

\* The number of getTopLevelNodes calls followed per PecaItem.
MaxHierarchyCalls == 2

(* --------------------------- program constants ------------------------ *)

floatingY == 4

SAFE_DIM == 200

\* new THREE.PerspectiveCamera(45, width / height, 0.1, 5000): the near
\* plane in tenths of a unit, the far plane in units.
CameraNear == 1

CameraFar == 5000

(* ------------------------------ strings ------------------------------- *)

\* The value null / undefined of a string-or-null variable.  It is a
\* one-element sequence holding a token that is no character, so it
\* differs from every string, the empty string included.
Null == <<"null">>

LowerChar(c) ==
  CASE c = "A" -> "a"
    [] c = "B" -> "b"
    [] c = "E" -> "e"
    [] c = "S" -> "s"
    [] OTHER -> c

ToLowerCase(s) == [i \in 1..Len(s) |-> LowerChar(s[i])]

\* name.split("-")[0]
SplitDash0(s) ==
  LET dashes == {i \in 1..Len(s) : s[i] = "-"}
  IN  IF dashes = {} THEN s
      ELSE SubSeq(s, 1, (CHOOSE i \in dashes : \A j \in dashes : i <= j) - 1)

Trim(s) ==
  LET solid == {i \in 1..Len(s) : s[i] # " "}
  IN  IF solid = {} THEN <<>>
      ELSE SubSeq(s, CHOOSE i \in solid : \A j \in solid : i <= j,
                     CHOOSE i \in solid : \A j \in solid : j <= i)

\* The four derivations of a part identity from a node name.
ClickPartName(name) == Trim(SplitDash0(name))

FindBaseName(name) == ToLowerCase(SplitDash0(name))

cleanNodeName(name) == Trim(ToLowerCase(SplitDash0(name)))

clean(name) == ToLowerCase(Trim(SplitDash0(name)))

(* ------------------------------- assets ------------------------------- *)

\* The assets the loader can return.  Nodes are numbered in traversal
\* (pre-)order; node 1 is gltf.scene.  Asset "a":
\*   1 "Scene"  group
\*   2 "br-2"   mesh, two materials, y in [6, 10]
\*   3 "Br-1"   group
\*   4 ""       mesh under 3, y in [0, 4]
\*   5 "Ar -1"  mesh, y in [2, 4]
\*   6 "Em-1"   group without meshes
\* Asset "b": 1 "Scene" group, 2 "Br-3" mesh, y in [0, 2].
\* Asset "c": 1 "Scene" group, 2 "" mesh: no named node but the scene.
\* Urls are the assets the viewers are given; the listed items also have
\* asset "c".
Urls == {"a", "b"}

AssetNodes(url) == IF url = "a" THEN 1..6 ELSE 1..2

NodeName(url, n) ==
  IF url = "a"
  THEN CASE n = 1 -> <<"S", "c", "e", "n", "e">>
         [] n = 2 -> <<"b", "r", "-", "2">>
         [] n = 3 -> <<"B", "r", "-", "1">>
         [] n = 4 -> <<>>
         [] n = 5 -> <<"A", "r", " ", "-", "1">>
         [] OTHER -> <<"E", "m", "-", "1">>
  ELSE CASE n = 1 -> <<"S", "c", "e", "n", "e">>
         [] OTHER -> IF url = "b" THEN <<"B", "r", "-", "3">> ELSE <<>>

\* 0: no parent inside the asset.
NodeParent(url, n) ==
  IF url = "a" THEN (CASE n = 1 -> 0 [] n = 4 -> 3 [] OTHER -> 1)
  ELSE (CASE n = 1 -> 0 [] OTHER -> 1)

IsMesh(url, n) == IF url = "a" THEN n \in {2, 4, 5} ELSE n = 2

\* A material is [multi, vals]: one value, or (multi) an array of values.
\* Material.clone() yields an equal value.
Single(v) == [multi |-> FALSE, vals |-> <<v>>]

AssetMaterial(url, n) ==
  IF url = "a"
  THEN CASE n = 2 -> [multi |-> TRUE, vals |-> <<"steel", "paint">>]
         [] n = 4 -> Single("steel")
         [] OTHER -> Single("alu")
  ELSE Single("steel")

MeshLo(url, n) ==
  IF url = "a" THEN (CASE n = 2 -> 6 [] n = 4 -> 0 [] OTHER -> 2) ELSE 0

MeshHi(url, n) ==
  IF url = "a" THEN (CASE n = 2 -> 10 [] n = 4 -> 4 [] OTHER -> 4) ELSE 2

RECURSIVE IsUnder(_, _, _)
\* n is r or a descendant of r.
IsUnder(url, n, r) ==
  IF n = r THEN TRUE
  ELSE IF NodeParent(url, n) = 0 THEN FALSE
  ELSE IsUnder(url, NodeParent(url, n), r)

\* The nodes object.traverse visits from r, and the meshes among them.
NodesUnder(url, r) == {n \in AssetNodes(url) : IsUnder(url, n, r)}

MeshesUnder(url, r) == {n \in NodesUnder(url, r) : IsMesh(url, n)}

SetMin(S) == CHOOSE x \in S : \A y \in S : x <= y

SetMax(S) == CHOOSE x \in S : \A y \in S : y <= x

\* extractPartByName's search: the traversal callback overwrites
\* targetObject at every match, so the node cloned is the last match.
\* 0: none.
ExtractedNode(url, partName) ==
  LET cleanedTarget == Trim(ToLowerCase(partName))
      hits == {n \in AssetNodes(url) :
                 /\ NodeName(url, n) # <<>>
                 /\ cleanNodeName(NodeName(url, n)) = cleanedTarget}
  IN  IF hits = {} THEN 0 ELSE SetMax(hits)

RECURSIVE CollectNames(_, _, _)
\* getTopLevelNodes's traversal from node n on: nodesSet, in insertion
\* order, after the cleaned names that are not "", "default" or "scene"
\* were added.
CollectNames(url, n, nodesSet) ==
  IF n \notin AssetNodes(url) THEN nodesSet
  ELSE LET c == clean(NodeName(url, n))
           keep == /\ NodeName(url, n) # <<>>
                   /\ c # <<>>
                   /\ c # <<"d", "e", "f", "a", "u", "l", "t">>
                   /\ c # <<"s", "c", "e", "n", "e">>
                   /\ \A i \in DOMAIN nodesSet : nodesSet[i] # c
       IN  CollectNames(url, n + 1, IF keep THEN Append(nodesSet, c) ELSE nodesSet)

\* getTopLevelNodes(url): the list of the set's elements; the cleaned name
\* of the scene itself when the traversal added nothing; [] when the
\* loader failed (loaded = FALSE).
getTopLevelNodes(url, loaded) ==
  IF ~loaded THEN <<>>
  ELSE LET nodesSet == CollectNames(url, 1, <<>>)
       IN  IF Len(nodesSet) = 0 /\ NodeName(url, 1) # <<>>
           THEN <<clean(NodeName(url, 1))>>
           ELSE nodesSet

(* ------------------------------ variables ----------------------------- *)

VARIABLES
  \* View3D props
  modelUrl, isolatedPart, thumbnailMode, selectedPartName,
  \* View3D component state and refs
  mounted, sceneRef, isModelLoaded, loadProgress, currentSelectedPart,
  isLoadingPart,
  \* one record per run of the setup effect: its closure and its scene
  sess, nSessions,
  \* the THREE.Object3D roots that exist: loaded groups and isolated parts
  objs,
  \* what the callbacks were called with
  modelLoadedLog, modelErrorLog, lastPartSelected,
  \* the handler that ran last, with its input and the selection before it
  lastOp,
  \* Miniatura3D instances and the module-level cache
  thumbnailCache, thumbDataUrl, isVisible, hasError, isProcessing,
  miniMounted, effectDue, loading, rendered, started, lastMiniOp,
  \* the (urlModelo, partName) pairs Miniatura3D was rendered with, each
  \* with the cache key computed for it
  keyRequests,
  \* PecaItem rows and the module-level hierarchyCache
  hierarchyCache, pecaMounted, isExpanded, hierarchy, isLoadingHierarchy,
  hierarchyEffectDue, hierarchyPending, hierarchyCalls, expansionCalls,
  lastPecaOp,
  \* VisualizadorModal: its props and state that View3D does not see, and
  \* one record per run of its load effect
  modalMounted, initialSelectedPart, modalIsLoadingPart, modalRuns,
  nModalRuns, lastModalOp,
  \* VisualizadorSTL: the component's phase, one record per loadSTL call,
  \* meshRef, the meshes in the scene, the meshes disposed, the state
  stlPhase, stlLoads, nStlLoads, stlMeshRef, stlScene, stlDisposed,
  viewerState, lastStlOp

viewVars ==
  <<modelUrl, isolatedPart, thumbnailMode, selectedPartName, mounted,
    sceneRef, isModelLoaded, loadProgress, currentSelectedPart,
    isLoadingPart, sess, nSessions, objs, modelLoadedLog, modelErrorLog,
    lastPartSelected, lastOp>>

thumbVars ==
  <<thumbnailCache, thumbDataUrl, isVisible, hasError, isProcessing,
    miniMounted, effectDue, loading, rendered, started, lastMiniOp,
    keyRequests>>

pecaVars ==
  <<hierarchyCache, pecaMounted, isExpanded, hierarchy, isLoadingHierarchy,
    hierarchyEffectDue, hierarchyPending, hierarchyCalls, expansionCalls,
    lastPecaOp>>

modalVars ==
  <<modalMounted, initialSelectedPart, modalIsLoadingPart, modalRuns,
    nModalRuns, lastModalOp>>

stlVars ==
  <<stlPhase, stlLoads, nStlLoads, stlMeshRef, stlScene, stlDisposed,
    viewerState, lastStlOp>>

vars == <<viewVars, thumbVars, pecaVars, modalVars, stlVars>>

(* ------------------------------- objects ------------------------------ *)

Sessions == 1..MaxSessions

\* The isolated parts a caller may pass as the isolatedPart prop: clones
\* made by extractPartByName from asset "a".  Object -1 is the part "br"
\* (a group holding one mesh), object -2 the part "ar" (a mesh).
IsoParts == {-1, -2}

IsoPartName(o) == IF o = -1 THEN <<"b", "r">> ELSE <<"a", "r">>

\* The groups VisualizadorModal loads to extract a part from: one per run
\* of its load effect, run r loading object 10 + r.
ModalModels == {10 + r : r \in 1..MaxModalRuns}

\* An object is a session's loaded group (its id is the session's number),
\* an isolated part or a group loaded by VisualizadorModal.  0 stands for
\* null.
ObjIds == Sessions \cup IsoParts \cup ModalModels

EmptyStore == [k \in {} |-> Single("none")]

\* The world bounding box of the subtree of object o at node n, as
\* THREE.Box3.setFromObject computes it; an empty box has size 0 and
\* centre 0 (Box3.getSize / getCenter on an empty box).
BoxOf(O, o, n) ==
  LET ms == MeshesUnder(O[o].url, n)
  IN  IF ms = {} THEN [size |-> 0, center |-> 0]
      ELSE LET lo == SetMin({MeshLo(O[o].url, m) : m \in ms}) + O[o].posY
               hi == SetMax({MeshHi(O[o].url, m) : m \in ms}) + O[o].posY
           IN  [size |-> hi - lo, center |-> (lo + hi) \div 2]

\* The sizes of the model are finite, so the isFinite guard passes.
normalizeModelSizeAndPosition(O, o, fy) ==
  LET box == BoxOf(O, o, O[o].root)
  IN  [O EXCEPT ![o].posY = (O[o].posY - box.center) + box.size \div 2 + fy]

CloneMaterial(m) == [multi |-> m.multi, vals |-> [i \in 1..Len(m.vals) |-> m.vals[i]]]

\* Every mesh under the root has a (truthy) material: an entry is set for
\* each, overwriting any entry the mesh has.
collectOriginalMaterials(O, o, store) ==
  LET ms == {<<o, n>> : n \in MeshesUnder(O[o].url, O[o].root)}
  IN  [k \in DOMAIN store \cup ms |->
         IF k \in ms THEN CloneMaterial(O[k[1]].mat[k[2]]) ELSE store[k]]

\* resetModelColor without the Array.isArray branch: a mesh whose snapshot
\* is an array of materials keeps what it has.
resetModelColor_SingleOnly(O, store) ==
  [o \in DOMAIN O |->
     [O[o] EXCEPT !.mat =
        [n \in DOMAIN O[o].mat |->
           IF <<o, n>> \in DOMAIN store /\ ~store[<<o, n>>].multi
           THEN CloneMaterial(store[<<o, n>>])
           ELSE O[o].mat[n]]]]

HighlightMaterial == Single("highlight")

\* The kinds of the material objects the meshes S of object o hold: a
\* highlight clone, a clone made by a reset, or the material the object
\* came with.  A mesh holding the empty array holds none.
LiveKinds(O, o, S) ==
  {IF O[o].mat[n] = HighlightMaterial THEN "highlight"
   ELSE IF O[o].wasReset THEN "reset" ELSE "original" :
     n \in {x \in S \cap DOMAIN O[o].mat : Len(O[o].mat[x].vals) > 0}}

\* The meshes of object o that have an entry in the store.
Stored(store, O, o) == {n \in DOMAIN O[o].mat : <<o, n>> \in DOMAIN store}

\* resetModelColor assigning the stored materials themselves.
resetModelColor_SharesStored(O, store) ==
  [o \in DOMAIN O |->
     IF Stored(store, O, o) = {} THEN O[o]
     ELSE [O[o] EXCEPT !.mat =
             [n \in DOMAIN O[o].mat |->
                IF <<o, n>> \in DOMAIN store THEN store[<<o, n>>]
                ELSE O[o].mat[n]],
                       !.wasReset = TRUE,
                       !.aliased = O[o].aliased \cup Stored(store, O, o),
                       !.dropped = O[o].dropped \cup
                                     LiveKinds(O, o, Stored(store, O, o))]]

\* resetModelColor: every mesh of the store is assigned clones of its
\* entry.  The materials the mesh held are replaced without dispose();
\* dropped records their kinds.  aliased holds the meshes whose live
\* material is the very object the store holds: a clone is a new object,
\* so the meshes of the store leave it.
resetModelColor(O, store) ==
  [o \in DOMAIN O |->
     IF Stored(store, O, o) = {} THEN O[o]
     ELSE [O[o] EXCEPT !.mat =
             [n \in DOMAIN O[o].mat |->
                IF <<o, n>> \in DOMAIN store THEN CloneMaterial(store[<<o, n>>])
                ELSE O[o].mat[n]],
                       !.wasReset = TRUE,
                       !.aliased = O[o].aliased \ Stored(store, O, o),
                       !.dropped = O[o].dropped \cup
                                     LiveKinds(O, o, Stored(store, O, o))]]

\* highlightPart: baseMat is created and each mesh is assigned a clone of
\* it; baseMat and the materials the meshes held are not disposed.
highlightPart(O, o, meshes) ==
  [O EXCEPT ![o].mat =
     [n \in DOMAIN O[o].mat |->
        IF n \in meshes THEN CloneMaterial(HighlightMaterial) ELSE O[o].mat[n]],
            ![o].aliased = O[o].aliased \ meshes,
            ![o].dropped = O[o].dropped \cup {"highlight"}
                             \cup LiveKinds(O, o, meshes)]

RECURSIVE MaterialCount(_, _)
\* The number of materials the meshes S hold, arrays counted by element.
MaterialCount(mat, S) ==
  IF S = {} THEN 0
  ELSE LET n == CHOOSE x \in S : TRUE
       IN  Len(mat[n].vals) + MaterialCount(mat, S \ {n})

\* What a call of disposeObject releases: the geometry of every mesh, if
\* dispose() was not called on it before (BufferGeometry.dispose only
\* announces the disposal; the buffers of a geometry are freed once), and
\* every material a mesh holds.
Released(O, o) ==
  (IF O[o].geometryDisposed THEN 0 ELSE Cardinality(DOMAIN O[o].mat))
  + MaterialCount(O[o].mat, DOMAIN O[o].mat)

\* disposeObject without the assignment mesh.material = [].
disposeObject_KeepsMaterials(O, o) ==
  [O EXCEPT ![o].parent = 0,
            ![o].geometryDisposed = TRUE,
            ![o].releases = O[o].releases + Released(O, o)]

\* disposeObject: every mesh's geometry and materials are disposed, its
\* material becomes the empty array and the root leaves its parent.
\* releases counts what was released over the object's life.
disposeObject(O, o) ==
  [O EXCEPT ![o].mat = [n \in DOMAIN O[o].mat |-> [multi |-> TRUE, vals |-> <<>>]],
            ![o].parent = 0,
            ![o].geometryDisposed = TRUE,
            ![o].releases = O[o].releases + Released(O, o)]

\* A call of disposeObject(o) made by owner, a component: disposedBy
\* records who called it, disposedAttached whether o was a child of a
\* scene when it was called.
DisposeBy(O, o, owner) ==
  [disposeObject(O, o) EXCEPT ![o].disposedBy = O[o].disposedBy \cup {owner},
                              ![o].disposedAttached =
                                O[o].disposedAttached \/ O[o].parent # 0]

\* fitCameraToObject framing the whole object whatever node it is given.
fitCameraToObject_WholeObject(I, O, o, n) ==
  LET box == BoxOf(O, o, O[o].root)
      maxDim == box.size
      effectiveDim == IF maxDim > 0 THEN maxDim ELSE SAFE_DIM
  IN  [I EXCEPT !.camTarget = box.center, !.camDim = effectiveDim]

\* fitCameraToObject: the controls' target is the box centre; the camera
\* distance is effectiveDim / 2 / tan(fov / 2) * 1.3 * 1.5, a fixed multiple
\* of effectiveDim, which is what the session records.  With integer
\* sizes, maxDim > 0.01 is maxDim > 0.  camera.near and camera.far are
\* not assigned: camNear and camFar stay what setupScene made them.
fitCameraToObject(I, O, o, n) ==
  LET box == BoxOf(O, o, n)
      maxDim == box.size
      effectiveDim == IF maxDim > 0 THEN maxDim ELSE SAFE_DIM
  IN  [I EXCEPT !.camTarget = box.center, !.camDim = effectiveDim]

\* findNodeByBaseName: the first node in traversal order, from the root of
\* object o, whose name is non-empty and whose base equals the target's.
\* 0: not found.
findNodeByBaseName(O, o, baseName) ==
  LET targetBase == ToLowerCase(baseName)
      hits == {n \in NodesUnder(O[o].url, O[o].root) :
                 /\ NodeName(O[o].url, n) # <<>>
                 /\ FindBaseName(NodeName(O[o].url, n)) = targetBase}
  IN  IF hits = {} THEN 0 ELSE SetMin(hits)

(* ------------------------------ sessions ------------------------------ *)

\* The listener setupScene registers on window.
SceneListeners == {"window.resize.setupScene"}

\* The listeners the setup effect itself registers on the canvas and on
\* window.
ViewListeners ==
  {"canvas.pointerdown", "window.pointerup", "canvas.mousedown", "window.resize"}

\* The listeners the cleanup passes to removeEventListener.
CleanupRemoves == {"window.resize", "canvas.pointerdown", "window.pointerup"}

\* The closure of one run of the setup effect: the props it captured, its
\* InteractiveThreeScene (mesh, originalMaterials, camera and controls) and
\* its locals addedObject and load().  loadPc is load()'s position:
\* "idle" (not called), "pending" (awaiting loadGLB), "done", "failed".
\* matAtAttach is a history field: the materials the model's meshes had
\* when scene.add attached it.  listeners are the event listeners the run
\* registered that are still registered.  replaced is a history field:
\* the object the previous run had attached when its cleanup ran for this
\* run to start (0: none).  loadError is what the loader's promise was
\* rejected with ("none": not rejected).  rafPending is the number of
\* animation-frame callbacks of the run's animate that are scheduled and
\* not cancelled, ticks the number of times animate ran and lastTickThrew
\* whether its last run threw inside the try.  canvasInContainer: the
\* run's canvas is a child of the component's container; setupScene
\* appends it and nothing removes it.
BlankSession ==
  [url |-> "a", iso |-> 0, made |-> FALSE, torn |-> FALSE, loadPc |-> "idle",
   addedObject |-> 0, mesh |-> 0, originalMaterials |-> EmptyStore,
   camTarget |-> 0, camDim |-> 0, camNear |-> CameraNear,
   camFar |-> CameraFar, matAtAttach |-> <<>>, listeners |-> {},
   replaced |-> 0, loadError |-> "none", canvasInContainer |-> FALSE,
   rafPending |-> 0, ticks |-> 0, lastTickThrew |-> FALSE]

BlankObject ==
  [made |-> FALSE, url |-> "a", root |-> 1, posY |-> 0, mat |-> <<>>,
   parent |-> 0, geometryDisposed |-> FALSE, releases |-> 0,
   wasReset |-> FALSE, dropped |-> {}, aliased |-> {}, disposedBy |-> {},
   disposedAttached |-> FALSE]

\* gltf.scene as loadGLB returns it.
LoadedObject(url) ==
  [made |-> TRUE, url |-> url, root |-> 1, posY |-> 0,
   mat |-> [n \in MeshesUnder(url, 1) |-> AssetMaterial(url, n)],
   parent |-> 0, geometryDisposed |-> FALSE, releases |-> 0,
   wasReset |-> FALSE, dropped |-> {}, aliased |-> {}, disposedBy |-> {},
   disposedAttached |-> FALSE]

\* extractPartByName(model, partName): a clone of the matched subtree with
\* cloned materials, normalised with floatingY = 0.
extractPartByName(url, partName) ==
  LET r == ExtractedNode(url, partName)
      c == [made |-> TRUE, url |-> url, root |-> r, posY |-> 0,
            mat |-> [n \in MeshesUnder(url, r) |-> CloneMaterial(AssetMaterial(url, n))],
            parent |-> 0, geometryDisposed |-> FALSE, releases |-> 0,
   wasReset |-> FALSE, dropped |-> {}, aliased |-> {}, disposedBy |-> {},
   disposedAttached |-> FALSE]
  IN  normalizeModelSizeAndPosition([o \in {0} |-> c], 0, 0)[0]

\* The objects attached to the scene of session s.
SceneObjs(O, s) == {o \in DOMAIN O : O[o].made /\ O[o].parent = s}

\* scene.add(o): o leaves its previous parent.
SceneAdd(O, s, o) == [O EXCEPT ![o].parent = s]

\* scene.remove(o): nothing if o is not a child of the scene.
SceneRemove(O, s, o) == IF O[o].parent = s THEN [O EXCEPT ![o].parent = 0] ELSE O

\* The state the View3D operations read and write, passed through the
\* steps of one handler.
World ==
  [sess |-> sess, objs |-> objs, sceneRef |-> sceneRef,
   isModelLoaded |-> isModelLoaded, loadProgress |-> loadProgress,
   isLoadingPart |-> isLoadingPart, currentSelectedPart |-> currentSelectedPart,
   modelLoadedLog |-> modelLoadedLog, modelErrorLog |-> modelErrorLog,
   lastPartSelected |-> lastPartSelected]

Commit(W) ==
  /\ sess' = W.sess
  /\ objs' = W.objs
  /\ sceneRef' = W.sceneRef
  /\ isModelLoaded' = W.isModelLoaded
  /\ loadProgress' = W.loadProgress
  /\ isLoadingPart' = W.isLoadingPart
  /\ currentSelectedPart' = W.currentSelectedPart
  /\ modelLoadedLog' = W.modelLoadedLog
  /\ modelErrorLog' = W.modelErrorLog
  /\ lastPartSelected' = W.lastPartSelected

\* The part of load() after objToAdd is known: attach, (isolated part:
\* highlight), frame.
AttachLoaded(W, s, o) ==
  LET I0 == W.sess[s]
      \* a previously added object is reset, removed and disposed
      O0 == IF I0.addedObject # 0
            THEN DisposeBy(
                   SceneRemove(resetModelColor(W.objs, I0.originalMaterials),
                               s, I0.addedObject),
                   I0.addedObject, "View3D")
            ELSE W.objs
      O1 == SceneAdd(O0, s, o)
      I1 == [I0 EXCEPT !.mesh = o, !.addedObject = o, !.matAtAttach = O1[o].mat]
      meshesToHighlight == MeshesUnder(O1[o].url, O1[o].root)
      I2 == IF I0.iso # 0
            THEN [I1 EXCEPT !.originalMaterials =
                    collectOriginalMaterials(O1, o, I1.originalMaterials)]
            ELSE I1
      O2 == IF I0.iso # 0 /\ meshesToHighlight # {}
            THEN highlightPart(O1, o, meshesToHighlight)
            ELSE O1
      I3 == fitCameraToObject(I2, O2, o, O2[o].root)
  IN  [W EXCEPT !.objs = O2, !.sess[s] = I3]

\* A setup effect whose load() goes on to await loadGLB after it attached
\* the isolated part.
SetupEffect_IsolatedAlsoLoads(W, s, u, i) ==
  LET I0 == [BlankSession EXCEPT !.url = u, !.iso = i, !.made = TRUE,
                                !.listeners = SceneListeners \cup ViewListeners,
                                !.canvasInContainer = TRUE,
                                !.rafPending = 1]
      W0 == [W EXCEPT !.sess[s] = I0, !.sceneRef = s,
                      !.isLoadingPart = TRUE, !.loadProgress = 0]
  IN  IF i # 0
      THEN LET O1 == normalizeModelSizeAndPosition(W0.objs, i, floatingY)
               I1 == [I0 EXCEPT !.originalMaterials =
                        collectOriginalMaterials(O1, i, I0.originalMaterials),
                                !.loadPc = "pending"]
               W1 == [W0 EXCEPT !.objs = O1, !.sess[s] = I1,
                                !.isModelLoaded = TRUE,
                                !.modelLoadedLog = W0.modelLoadedLog \cup {i}]
           IN  AttachLoaded(W1, s, i)
      ELSE [W0 EXCEPT !.sess[s].loadPc = "pending"]

\* The setup effect of session s with props (u, i): scene and interaction
\* are created, sceneRef is set and load() is called.  With an isolated
\* part load() runs to its end at once; otherwise it stops at
\* await loadGLB.
SetupEffect(W, s, u, i) ==
  LET I0 == [BlankSession EXCEPT !.url = u, !.iso = i, !.made = TRUE,
                                !.listeners = SceneListeners \cup ViewListeners,
                                !.canvasInContainer = TRUE,
                                !.rafPending = 1]
      W0 == [W EXCEPT !.sess[s] = I0, !.sceneRef = s,
                      !.isLoadingPart = TRUE, !.loadProgress = 0]
  IN  IF i # 0
      THEN LET O1 == normalizeModelSizeAndPosition(W0.objs, i, floatingY)
               I1 == [I0 EXCEPT !.originalMaterials =
                        collectOriginalMaterials(O1, i, I0.originalMaterials),
                                !.loadPc = "done"]
               W1 == [W0 EXCEPT !.objs = O1, !.sess[s] = I1,
                                !.isModelLoaded = TRUE,
                                !.modelLoadedLog = W0.modelLoadedLog \cup {i}]
           IN  [AttachLoaded(W1, s, i) EXCEPT !.isLoadingPart = FALSE]
      ELSE [W0 EXCEPT !.sess[s].loadPc = "pending"]

\* animate with requestAnimationFrame(animate) as the last statement of
\* the try block.
animate_RescheduleInTry(I, throws) ==
  [I EXCEPT !.rafPending = (I.rafPending - 1) + (IF throws THEN 0 ELSE 1),
            !.ticks = I.ticks + 1,
            !.lastTickThrew = throws]

\* animate, run by the host as a scheduled animation-frame callback:
\* controls.update() and renderer.render() inside try/catch, then
\* requestAnimationFrame(animate).  throws: whether the try block threw.
animate(I, throws) ==
  [I EXCEPT !.rafPending = (I.rafPending - 1) + 1,
            !.ticks = I.ticks + 1,
            !.lastTickThrew = throws]

\* The cleanup without interactive.originalMaterials.clear().
CleanupEffect_KeepsStore(W, s) ==
  LET I0 == W.sess[s]
      O1 == IF I0.addedObject # 0
            THEN DisposeBy(
                   SceneRemove(resetModelColor(W.objs, I0.originalMaterials),
                               s, I0.addedObject),
                   I0.addedObject, "View3D")
            ELSE W.objs
      I1 == IF I0.addedObject # 0
            THEN [I0 EXCEPT !.mesh = 0, !.addedObject = 0]
            ELSE I0
  IN  [W EXCEPT !.objs = O1,
                !.sess[s] = [I1 EXCEPT !.listeners = I1.listeners \ CleanupRemoves,
                                       !.rafPending = 0,
                                       !.torn = TRUE],
                !.sceneRef = 0]

\* The cleanup the setup effect returns.
CleanupEffect(W, s) ==
  LET I0 == W.sess[s]
      O1 == IF I0.addedObject # 0
            THEN DisposeBy(
                   SceneRemove(resetModelColor(W.objs, I0.originalMaterials),
                               s, I0.addedObject),
                   I0.addedObject, "View3D")
            ELSE W.objs
      I1 == IF I0.addedObject # 0
            THEN [I0 EXCEPT !.mesh = 0, !.addedObject = 0]
            ELSE I0
      \* originalMaterials.clear(): the clones the store held are let go
      \* of without dispose()
      O2 == [o \in DOMAIN O1 |->
               IF Stored(I0.originalMaterials, O1, o) = {} THEN O1[o]
               ELSE [O1[o] EXCEPT !.dropped = O1[o].dropped \cup {"snapshot"}]]
  IN  [W EXCEPT !.objs = O2,
                !.sess[s] = [I1 EXCEPT !.originalMaterials = EmptyStore,
                                       !.listeners = I1.listeners \ CleanupRemoves,
                                       !.rafPending = 0,
                                       !.torn = TRUE],
                !.sceneRef = 0]

\* The effect on [selectedPartName, isolatedPart].
SelectedPartNameEffect(W, iso, name) ==
  LET cur == W.sceneRef
  IN  IF cur = 0 THEN W
      ELSE IF W.sess[cur].mesh = 0 THEN W
      ELSE IF iso # 0 THEN W
      ELSE
        LET I0 == W.sess[cur]
            m == I0.mesh
            O1 == resetModelColor(W.objs, I0.originalMaterials)
        IN  IF name # Null /\ name # <<>>
            THEN LET target == findNodeByBaseName(O1, m, name)
                     meshesToHighlight == MeshesUnder(O1[m].url, target)
                 IN  IF target # 0
                     THEN IF meshesToHighlight # {}
                          THEN LET st == collectOriginalMaterials(O1, m, I0.originalMaterials)
                               IN  [W EXCEPT
                                      !.objs = highlightPart(O1, m, meshesToHighlight),
                                      !.sess[cur] = fitCameraToObject(
                                         [I0 EXCEPT !.originalMaterials = st], O1, m, target),
                                      !.currentSelectedPart = name]
                          ELSE [W EXCEPT !.objs = O1, !.currentSelectedPart = name]
                     ELSE [W EXCEPT !.objs = O1, !.currentSelectedPart = Null]
            ELSE [W EXCEPT !.objs = O1,
                           !.sess[cur] = fitCameraToObject(I0, O1, m, O1[m].root),
                           !.currentSelectedPart = Null]

\* The THREE.Scene as a node of the ancestor walk: it has no name and no
\* parent.
TheScene == 0

RECURSIVE ClimbToPart(_, _, _)
\* while (sel.parent && sel.parent !== current.mesh) sel = sel.parent,
\* in object m (the session's mesh), from node sel.
ClimbToPart(O, m, sel) ==
  IF sel = TheScene THEN sel
  ELSE IF sel = O[m].root
       THEN IF O[m].parent # 0 THEN ClimbToPart(O, m, TheScene) ELSE sel
  ELSE IF NodeParent(O[m].url, sel) = O[m].root THEN sel
  ELSE ClimbToPart(O, m, NodeParent(O[m].url, sel))

SelName(O, m, sel) == IF sel = TheScene THEN <<>> ELSE NodeName(O[m].url, sel)

\* The clearing branch without its resetModelColor call.
ClearSelection_NoReset(W, store) ==
  [W EXCEPT !.currentSelectedPart = Null, !.lastPartSelected = Null]

\* What a click clears: selection, report, highlight.
ClearSelection(W, store) ==
  [W EXCEPT !.currentSelectedPart = Null, !.lastPartSelected = Null,
            !.objs = resetModelColor(W.objs, store)]

\* handleClick; hit is the mesh node getIntersects returns, 0 for none
\* (empty space, or a container of zero width or height).
handleClick(W, thumb, hit) ==
  LET cur == W.sceneRef
  IN  IF cur = 0 THEN W
      ELSE IF W.sess[cur].mesh = 0 \/ thumb THEN W
      ELSE
        LET I0 == W.sess[cur]
            m == I0.mesh
        IN  IF hit = 0 THEN ClearSelection(W, I0.originalMaterials)
            ELSE
              LET sel == ClimbToPart(W.objs, m, hit)
                  name == SelName(W.objs, m, sel)
                  partName == IF name # <<>> THEN ClickPartName(name) ELSE Null
              IN  IF sel = W.objs[m].root THEN ClearSelection(W, I0.originalMaterials)
                  ELSE IF partName = Null \/ partName = <<>>
                       THEN ClearSelection(W, I0.originalMaterials)
                  ELSE
                    LET newSel == IF W.currentSelectedPart = partName THEN Null ELSE partName
                        O1 == resetModelColor(W.objs, I0.originalMaterials)
                        meshesToHighlight == MeshesUnder(O1[m].url, sel)
                        W1 ==
                          IF newSel # Null
                          THEN IF meshesToHighlight # {}
                               THEN [W EXCEPT
                                       !.objs = highlightPart(O1, m, meshesToHighlight),
                                       !.sess[cur] = fitCameraToObject(
                                          [I0 EXCEPT !.originalMaterials =
                                             collectOriginalMaterials(O1, m, I0.originalMaterials)],
                                          O1, m, sel)]
                               ELSE [W EXCEPT !.objs = O1]
                          ELSE [W EXCEPT !.objs = O1,
                                         !.sess[cur] = fitCameraToObject(I0, O1, m, O1[m].root)]
                    IN  [W1 EXCEPT !.currentSelectedPart = newSel,
                                   !.lastPartSelected = newSel]

\* The timer callback of highlightPartByName(partName).
highlightPartByName(W, partName) ==
  LET cur == W.sceneRef
  IN  IF partName = Null
      THEN LET W1 ==
                 IF cur = 0 THEN W
                 ELSE LET I0 == W.sess[cur]
                          O1 == resetModelColor(W.objs, I0.originalMaterials)
                      IN  IF I0.mesh # 0
                          THEN [W EXCEPT !.objs = O1,
                                         !.sess[cur] = fitCameraToObject(
                                            I0, O1, I0.mesh, O1[I0.mesh].root)]
                          ELSE [W EXCEPT !.objs = O1]
           IN  [W1 EXCEPT !.currentSelectedPart = Null]
      ELSE IF cur = 0 THEN [W EXCEPT !.currentSelectedPart = partName]
      ELSE IF W.sess[cur].mesh = 0 THEN [W EXCEPT !.currentSelectedPart = partName]
      ELSE
        LET I0 == W.sess[cur]
            m == I0.mesh
            target == findNodeByBaseName(W.objs, m, partName)
        IN  IF target # 0
            THEN LET O1 == resetModelColor(W.objs, I0.originalMaterials)
                     meshesToHighlight == MeshesUnder(O1[m].url, target)
                     W1 ==
                       IF meshesToHighlight # {}
                       THEN [W EXCEPT
                               !.objs = highlightPart(O1, m, meshesToHighlight),
                               !.sess[cur] = fitCameraToObject(
                                  [I0 EXCEPT !.originalMaterials =
                                     collectOriginalMaterials(O1, m, I0.originalMaterials)],
                                  O1, m, target)]
                       ELSE [W EXCEPT !.objs = O1]
                 IN  [W1 EXCEPT !.currentSelectedPart = partName]
            ELSE [W EXCEPT !.currentSelectedPart = Null]

\* load() after await loadGLB resolves, in the closure of session s,
\* whether or not the session has been cleaned up since.  State setters
\* of an unmounted component do nothing.
loadResolved(W, s, isMounted) ==
  LET O0 == [W.objs EXCEPT ![s] = LoadedObject(W.sess[s].url)]
      O1 == normalizeModelSizeAndPosition(O0, s, floatingY)
      I1 == [W.sess[s] EXCEPT !.originalMaterials =
               collectOriginalMaterials(O1, s, W.sess[s].originalMaterials),
                             !.loadPc = "done"]
      W1 == [W EXCEPT !.objs = O1, !.sess[s] = I1,
                      !.modelLoadedLog = W.modelLoadedLog \cup {s},
                      !.isModelLoaded = IF isMounted THEN TRUE ELSE W.isModelLoaded]
      W2 == AttachLoaded(W1, s, s)
  IN  [W2 EXCEPT !.isLoadingPart = IF isMounted THEN FALSE ELSE W.isLoadingPart]

\* What loadGLB's promise rejects with when the loader's promise rejects
\* with cause: the catch rethrows it as it is.
loadGLB_Rejection(cause) == cause

\* load() after await loadGLB rejects, without the finally block.
loadRejected_NoFinally(W, s, cause, isMounted) ==
  [W EXCEPT !.sess[s].loadPc = "failed",
            !.sess[s].loadError = cause,
            !.modelErrorLog = Append(W.modelErrorLog,
                                     [session |-> s,
                                      error |-> loadGLB_Rejection(cause)])]

\* load() after await loadGLB rejects: the catch calls onModelError with
\* the error, the finally clears isLoadingPart.
loadRejected(W, s, cause, isMounted) ==
  [W EXCEPT !.sess[s].loadPc = "failed",
            !.sess[s].loadError = cause,
            !.modelErrorLog = Append(W.modelErrorLog,
                                     [session |-> s,
                                      error |-> loadGLB_Rejection(cause)]),
            !.isLoadingPart = IF isMounted THEN FALSE ELSE W.isLoadingPart]

(* --------------------------- View3D actions --------------------------- *)

\* The part names a caller passes as selectedPartName or to
\* highlightPartByName: a name shared by two nodes and the name of a group
\* without meshes.
NameInputs == {<<"b", "r">>, <<"E", "m">>}

ProgressValues == {50}

\* What the loader can fail with: a fetch error or a decoding error.
Causes == {"network", "decode"}

Unset == <<"unset">>

\* lastOp: the handler that ran last; node is the mesh a click hit or the
\* session whose load settled, name the part name passed, before the
\* selection a click found.
Op(op, node, name) ==
  [op |-> op, node |-> node, name |-> name,
   before |-> IF op = "click" THEN currentSelectedPart ELSE Null]

\* The component mounts: state is initial, both effects run.
Mount(u, i, t, p) ==
  /\ ~mounted
  /\ nSessions = 0
  /\ mounted' = TRUE
  /\ modelUrl' = u
  /\ isolatedPart' = i
  /\ thumbnailMode' = t
  /\ selectedPartName' = p
  /\ nSessions' = 1
  /\ Commit(SelectedPartNameEffect(SetupEffect(World, 1, u, i), i, p))
  /\ lastOp' = Op("mount", 0, p)
  /\ UNCHANGED <<thumbVars, pecaVars, modalVars, stlVars>>

\* A render with a changed dependency of the setup effect (modelUrl,
\* isolatedPart, or the identity of onModelLoaded or onModelError; a
\* change of thumbnailMode acts like these and is left out): the cleanup
\* of the live session runs, then the setup of a new one, then, if
\* isolatedPart changed, the selectedPartName effect.
PropsChange(u, i) ==
  /\ mounted
  /\ nSessions < MaxSessions
  /\ modelUrl' = u
  /\ isolatedPart' = i
  /\ nSessions' = nSessions + 1
  /\ LET W0 == SetupEffect(CleanupEffect(World, nSessions), nSessions + 1, u, i)
         W1 == [W0 EXCEPT !.sess[nSessions + 1].replaced =
                            sess[nSessions].addedObject]
     IN  Commit(IF i # isolatedPart
                THEN SelectedPartNameEffect(W1, i, selectedPartName)
                ELSE W1)
  /\ lastOp' = Op("props", 0, Null)
  /\ UNCHANGED <<mounted, selectedPartName, thumbnailMode>>
  /\ UNCHANGED <<thumbVars, pecaVars, modalVars, stlVars>>

\* The selectedPartName prop changes.
SelectedPartNameChange(p) ==
  /\ mounted
  /\ p # selectedPartName
  /\ selectedPartName' = p
  /\ Commit(SelectedPartNameEffect(World, isolatedPart, p))
  /\ lastOp' = Op("selectProp", 0, p)
  /\ UNCHANGED <<mounted, modelUrl, isolatedPart, thumbnailMode, nSessions>>
  /\ UNCHANGED <<thumbVars, pecaVars, modalVars, stlVars>>

\* The objects a click can hit: the meshes of the session's model.
Hittable ==
  IF sceneRef = 0 THEN {}
  ELSE IF sess[sceneRef].mesh = 0 THEN {}
  ELSE LET m == sess[sceneRef].mesh IN MeshesUnder(objs[m].url, objs[m].root)

Click(hit) ==
  /\ mounted
  /\ hit \in {0} \cup Hittable
  /\ Commit(handleClick(World, thumbnailMode, hit))
  /\ lastOp' = Op("click", hit, Null)
  /\ UNCHANGED <<mounted, modelUrl, isolatedPart, thumbnailMode,
                 selectedPartName, nSessions>>
  /\ UNCHANGED <<thumbVars, pecaVars, modalVars, stlVars>>

HighlightPartByName(p) ==
  /\ mounted
  /\ Commit(highlightPartByName(World, p))
  /\ lastOp' = Op("highlightPartByName", 0, p)
  /\ UNCHANGED <<mounted, modelUrl, isolatedPart, thumbnailMode,
                 selectedPartName, nSessions>>
  /\ UNCHANGED <<thumbVars, pecaVars, modalVars, stlVars>>

\* loadGLB's progress callback, in the closure of session s.
LoadProgress(s, pv) ==
  /\ sess[s].loadPc = "pending"
  /\ mounted
  /\ loadProgress' = pv
  /\ lastOp' = Op("progress", 0, Null)
  /\ UNCHANGED <<modelUrl, isolatedPart, thumbnailMode, selectedPartName,
                 mounted, sceneRef, isModelLoaded, currentSelectedPart,
                 isLoadingPart, sess, nSessions, objs, modelLoadedLog,
                 modelErrorLog, lastPartSelected>>
  /\ UNCHANGED <<thumbVars, pecaVars, modalVars, stlVars>>

LoadResolve(s) ==
  /\ sess[s].loadPc = "pending"
  /\ Commit(loadResolved(World, s, mounted))
  /\ lastOp' = Op("resolve", s, Null)
  /\ UNCHANGED <<mounted, modelUrl, isolatedPart, thumbnailMode,
                 selectedPartName, nSessions>>
  /\ UNCHANGED <<thumbVars, pecaVars, modalVars, stlVars>>

LoadReject(s, cause) ==
  /\ sess[s].loadPc = "pending"
  /\ Commit(loadRejected(World, s, cause, mounted))
  /\ lastOp' = Op("reject", s, Null)
  /\ UNCHANGED <<mounted, modelUrl, isolatedPart, thumbnailMode,
                 selectedPartName, nSessions>>
  /\ UNCHANGED <<thumbVars, pecaVars, modalVars, stlVars>>

\* The host runs a scheduled animation-frame callback of session s.
Tick(s, throws) ==
  /\ sess[s].rafPending > 0
  /\ sess[s].ticks < MaxTicks
  /\ sess' = [sess EXCEPT ![s] = animate(sess[s], throws)]
  /\ lastOp' = Op("tick", s, Null)
  /\ UNCHANGED <<modelUrl, isolatedPart, thumbnailMode, selectedPartName,
                 mounted, sceneRef, isModelLoaded, loadProgress,
                 currentSelectedPart, isLoadingPart, nSessions, objs,
                 modelLoadedLog, modelErrorLog, lastPartSelected>>
  /\ UNCHANGED <<thumbVars, pecaVars, modalVars, stlVars>>

\* The component unmounts: the cleanup of the live session runs.
Unmount ==
  /\ mounted
  /\ mounted' = FALSE
  /\ Commit(CleanupEffect(World, nSessions))
  /\ lastOp' = Op("unmount", 0, Null)
  /\ UNCHANGED <<modelUrl, isolatedPart, thumbnailMode, selectedPartName,
                 nSessions>>
  /\ UNCHANGED <<thumbVars, pecaVars, modalVars, stlVars>>

(* ----------------------------- Miniatura3D ---------------------------- *)

\* Three Miniatura3D instances: two of the same part of asset "a", one of
\* the whole asset.  A url here is one character long.
Minis == {1, 2, 3}

MiniUrl(i) == "a"

\* <<>>: no partName prop (undefined and "" behave alike in the code).
MiniPart(i) == IF i = 3 THEN <<>> ELSE <<"b", "r">>

FULL_MODEL == <<"F", "U", "L", "L", "_", "M", "O", "D", "E", "L">>

\* The partName prop left out: undefined.
NoPartName == <<"undefined">>

\* `${url}::${partName || "FULL_MODEL"}`: undefined and "" are falsy.
getCacheKey(url, partName) ==
  <<url>> \o <<":", ":">>
          \o (IF partName # <<>> /\ partName # NoPartName THEN partName
              ELSE FULL_MODEL)

MiniKey(i) == getCacheKey(MiniUrl(i), MiniPart(i))

\* A data URL is the image of a node of an asset; NoImage is null.
NoImage == [url |-> "", node |-> 0]

\* The image renderThumbnailToDataURL encodes for an instance's object:
\* the extracted part, or the whole loaded group.
RenderedImage(i) ==
  [url |-> MiniUrl(i),
   node |-> IF MiniPart(i) # <<>>
            THEN ExtractedNode(MiniUrl(i), MiniPart(i))
            ELSE 1]

\* thumbnailCache.get(key) || null
CacheGet(key) ==
  IF key \in DOMAIN thumbnailCache THEN thumbnailCache[key] ELSE NoImage

\* The guard looking the cache up under the url alone, without the part.
CacheHit_UrlOnly(i, retry) ==
  ~retry /\ CacheGet(getCacheKey(MiniUrl(i), <<>>)) # NoImage

\* The guard of generateThumbnail's early return.
CacheHit(i, retry) == ~retry /\ CacheGet(MiniKey(i)) # NoImage

\* What a call of renderThumbnailToDataURL leaves behind: whether it
\* returned a data URL, whether the model is still a child of the
\* throwaway scene, whether the model was disposed, and whether the
\* renderer was created and disposed.  NoRender: no call.
NoRender ==
  [called |-> FALSE, returned |-> FALSE, inScene |-> FALSE,
   modelDisposed |-> FALSE, rendererCreated |-> FALSE,
   rendererDisposed |-> FALSE]

\* The statements of renderThumbnailToDataURL that can throw: creating
\* the WebGL renderer ("context"), and fitting the camera, rendering and
\* encoding the canvas ("render").  "none": nothing throws.
RenderFaults == {"none", "context", "render"}

\* renderThumbnailToDataURL(model): the function has no try block, so a
\* throw ends it where it happens; the cleanup is its last three
\* statements.
renderThumbnailToDataURL(fault) ==
  CASE fault = "context" ->
         [NoRender EXCEPT !.called = TRUE]
    [] fault = "render" ->
         [NoRender EXCEPT !.called = TRUE, !.rendererCreated = TRUE,
                          !.inScene = TRUE]
    [] OTHER ->
         [called |-> TRUE, returned |-> TRUE, inScene |-> FALSE,
          modelDisposed |-> TRUE, rendererCreated |-> TRUE,
          rendererDisposed |-> TRUE]

\* lastMiniOp: the handler that ran last, whether the cache held the
\* instance's key when it ran, how many loadGLB calls it made and what
\* its call of renderThumbnailToDataURL left behind.
MiniOp(op, i, retry, loads) ==
  [op |-> op, inst |-> i, retry |-> retry,
   cached |-> MiniKey(i) \in DOMAIN thumbnailCache,
   loads |-> loads, render |-> NoRender, loaded |-> FALSE,
   modelGroupDisposed |-> FALSE]

\* Whether a generation of instance i disposed modelGroup, the group its
\* loadGLB resolved with: generateThumbnail never calls disposeObject, so
\* the group is disposed only as the object handed to
\* renderThumbnailToDataURL, which is the group when there is no partName
\* and the extracted clone otherwise.  render: what that call left behind.
ModelGroupDisposed(i, render) == MiniPart(i) = <<>> /\ render.modelDisposed

\* generateThumbnail(retry) up to the first await.
generateThumbnail(i, retry) ==
  IF CacheHit(i, retry)
  THEN /\ thumbDataUrl' = [thumbDataUrl EXCEPT ![i] = CacheGet(MiniKey(i))]
       /\ effectDue' = [effectDue EXCEPT ![i] = thumbDataUrl[i] # CacheGet(MiniKey(i))]
       /\ UNCHANGED <<hasError, isProcessing, loading, started>>
  ELSE /\ hasError' = [hasError EXCEPT ![i] = FALSE]
       /\ effectDue' = [effectDue EXCEPT ![i] = hasError[i]]
       /\ isProcessing' = [isProcessing EXCEPT ![i] = TRUE]
       /\ loading' = [loading EXCEPT ![i] = loading[i] + 1]
       /\ started' = [started EXCEPT ![i] = started[i] + 1]
       /\ UNCHANGED thumbDataUrl

\* An instance mounts: thumbDataUrl starts from the cache.
MiniMount(i) ==
  /\ ~miniMounted[i]
  /\ miniMounted' = [miniMounted EXCEPT ![i] = TRUE]
  /\ thumbDataUrl' = [thumbDataUrl EXCEPT ![i] = CacheGet(MiniKey(i))]
  /\ lastMiniOp' = MiniOp("mount", i, FALSE, 0)
  /\ UNCHANGED <<thumbnailCache, isVisible, hasError, isProcessing, effectDue,
                 loading, rendered, started>>
  /\ UNCHANGED <<viewVars, pecaVars, modalVars, stlVars, keyRequests>>

\* The IntersectionObserver, registered while there is no thumbDataUrl,
\* reports the container visible.
BecomeVisible(i) ==
  /\ miniMounted[i]
  /\ ~isVisible[i]
  /\ thumbDataUrl[i] = NoImage
  /\ isVisible' = [isVisible EXCEPT ![i] = TRUE]
  /\ effectDue' = [effectDue EXCEPT ![i] = TRUE]
  /\ lastMiniOp' = MiniOp("visible", i, FALSE, 0)
  /\ UNCHANGED <<thumbnailCache, thumbDataUrl, hasError, isProcessing,
                 miniMounted, loading, rendered, started>>
  /\ UNCHANGED <<viewVars, pecaVars, modalVars, stlVars, keyRequests>>

\* The effect on [isVisible, thumbDataUrl, hasError, generateThumbnail],
\* run after a render in which one of them changed.
VisibilityEffect(i) ==
  /\ effectDue[i]
  /\ IF isVisible[i] /\ thumbDataUrl[i] = NoImage /\ ~hasError[i]
     THEN /\ started[i] < MaxGenerations \/ CacheHit(i, FALSE)
          /\ generateThumbnail(i, FALSE)
          /\ lastMiniOp' = MiniOp("generate", i, FALSE, started'[i] - started[i])
     ELSE /\ effectDue' = [effectDue EXCEPT ![i] = FALSE]
          /\ lastMiniOp' = MiniOp("effect", i, FALSE, 0)
          /\ UNCHANGED <<thumbDataUrl, hasError, isProcessing, loading, started>>
  /\ UNCHANGED <<thumbnailCache, isVisible, miniMounted, rendered>>
  /\ UNCHANGED <<viewVars, pecaVars, modalVars, stlVars, keyRequests>>

\* A click on "Tentar Novamente", shown when there is no thumbDataUrl, no
\* pending transition and an error.
Retry(i) ==
  /\ miniMounted[i]
  /\ thumbDataUrl[i] = NoImage
  /\ ~isProcessing[i]
  /\ hasError[i]
  /\ started[i] < MaxGenerations
  /\ generateThumbnail(i, TRUE)
  /\ lastMiniOp' = MiniOp("retry", i, TRUE, started'[i] - started[i])
  /\ UNCHANGED <<thumbnailCache, isVisible, miniMounted, rendered>>
  /\ UNCHANGED <<viewVars, pecaVars, modalVars, stlVars, keyRequests>>

\* useTransition's isPending goes back to false: once the transition's
\* updates are committed or once its async callback has ended, depending
\* on the React version; the model allows either.
TransitionSettled(i) ==
  /\ isProcessing[i]
  /\ isProcessing' = [isProcessing EXCEPT ![i] = FALSE]
  /\ lastMiniOp' = MiniOp("transition", i, FALSE, 0)
  /\ UNCHANGED <<thumbnailCache, thumbDataUrl, isVisible, hasError,
                 miniMounted, effectDue, loading, rendered, started>>
  /\ UNCHANGED <<viewVars, pecaVars, modalVars, stlVars, keyRequests>>

\* A catch block that marks every instance as failed.
HasErrorAfterCatch_AllInstances(i) == [j \in Minis |-> TRUE]

\* setHasError(true) in the catch block of instance i's generation.
HasErrorAfterCatch(i) == [hasError EXCEPT ![i] = TRUE]

\* A generation's await loadGLB settles.  loaded: loadGLB resolved; the
\* part, if one is asked for, is then extracted and
\* renderThumbnailToDataURL is called, which runs to its end or throws
\* (fault).  If it returns, the generation awaits the data URL.
\* Otherwise (load error, part not found, render error) the catch block
\* runs.
GenerationSettles(i, loaded, fault) ==
  /\ loading[i] > 0
  /\ loaded \/ fault = "none"
  /\ loading' = [loading EXCEPT ![i] = loading[i] - 1]
  /\ IF loaded /\ RenderedImage(i).node # 0 /\ fault = "none"
     THEN /\ rendered' = [rendered EXCEPT ![i] = rendered[i] + 1]
          /\ UNCHANGED <<hasError, thumbDataUrl, effectDue>>
     ELSE /\ hasError' = HasErrorAfterCatch(i)
          /\ thumbDataUrl' = [thumbDataUrl EXCEPT ![i] = NoImage]
          /\ effectDue' = [effectDue EXCEPT ![i] =
                             effectDue[i] \/ ~hasError[i] \/ thumbDataUrl[i] # NoImage]
          /\ UNCHANGED rendered
  /\ LET render == IF loaded /\ RenderedImage(i).node # 0
                   THEN renderThumbnailToDataURL(fault)
                   ELSE NoRender
     IN  lastMiniOp' = [MiniOp("settle", i, FALSE, 0) EXCEPT
                          !.render = render,
                          !.loaded = loaded,
                          !.modelGroupDisposed = ModelGroupDisposed(i, render)]
  /\ UNCHANGED <<thumbnailCache, isVisible, isProcessing, miniMounted, started>>
  /\ UNCHANGED <<viewVars, pecaVars, modalVars, stlVars, keyRequests>>

\* A generation after await renderThumbnailToDataURL: state and cache are
\* updated.
GenerationFinishes(i) ==
  /\ rendered[i] > 0
  /\ rendered' = [rendered EXCEPT ![i] = rendered[i] - 1]
  /\ thumbDataUrl' = [thumbDataUrl EXCEPT ![i] = RenderedImage(i)]
  /\ thumbnailCache' =
       [k \in DOMAIN thumbnailCache \cup {MiniKey(i)} |->
          IF k = MiniKey(i) THEN RenderedImage(i) ELSE thumbnailCache[k]]
  /\ hasError' = [hasError EXCEPT ![i] = FALSE]
  /\ effectDue' = [effectDue EXCEPT ![i] =
                     effectDue[i] \/ hasError[i] \/ thumbDataUrl[i] # RenderedImage(i)]
  /\ lastMiniOp' = [MiniOp("finish", i, FALSE, 0) EXCEPT
                      !.loaded = TRUE,
                      !.modelGroupDisposed =
                        ModelGroupDisposed(i, renderThumbnailToDataURL("none"))]
  /\ UNCHANGED <<isVisible, isProcessing, miniMounted, loading, started>>
  /\ UNCHANGED <<viewVars, pecaVars, modalVars, stlVars, keyRequests>>

\* The props a Miniatura3D can be rendered with.
KeyUrls == {"a", "b"}

KeyPartNames == {NoPartName, <<>>, FULL_MODEL, <<"b", "r">>}

\* A Miniatura3D is rendered with props (url, partName): the initializer
\* of thumbDataUrl computes the cache key of the pair.
KeyRequest(url, partName) ==
  /\ keyRequests' = keyRequests \cup
       {[url |-> url, partName |-> partName, key |-> getCacheKey(url, partName)]}
  /\ UNCHANGED <<thumbnailCache, thumbDataUrl, isVisible, hasError, isProcessing,
                 miniMounted, effectDue, loading, rendered, started, lastMiniOp>>
  /\ UNCHANGED <<viewVars, pecaVars, modalVars, stlVars>>

(* ------------------------------ PecaItem ------------------------------ *)

\* Three rows: two of asset "a" and one of asset "c".
Pecas == {1, 2, 3}

PecaUrl(p) == IF p = 2 THEN "c" ELSE "a"

\* hierarchyCache.get(url) || []
HierarchyCacheGet(url) ==
  IF url \in DOMAIN hierarchyCache THEN hierarchyCache[url] ELSE <<>>

\* A row mounts: hierarchy starts from the cache; the effect runs and,
\* as the row is collapsed, does nothing.
PecaMount(p) ==
  /\ ~pecaMounted[p]
  /\ pecaMounted' = [pecaMounted EXCEPT ![p] = TRUE]
  /\ hierarchy' = [hierarchy EXCEPT ![p] = HierarchyCacheGet(PecaUrl(p))]
  /\ lastPecaOp' = [op |-> "mount", peca |-> p]
  /\ UNCHANGED <<hierarchyCache, isExpanded, isLoadingHierarchy,
                 hierarchyEffectDue, hierarchyPending, hierarchyCalls,
                 expansionCalls>>
  /\ UNCHANGED <<viewVars, thumbVars, modalVars, stlVars>>

\* A click on "Ver Componentes".  expansionCalls counts the calls of
\* getTopLevelNodes made since the row was last expanded.
ToggleExpanded(p) ==
  /\ pecaMounted[p]
  /\ isExpanded' = [isExpanded EXCEPT ![p] = ~isExpanded[p]]
  /\ hierarchyEffectDue' = [hierarchyEffectDue EXCEPT ![p] = TRUE]
  /\ expansionCalls' = [expansionCalls EXCEPT ![p] = 0]
  /\ lastPecaOp' = [op |-> "toggle", peca |-> p]
  /\ UNCHANGED <<hierarchyCache, pecaMounted, hierarchy, isLoadingHierarchy,
                 hierarchyPending, hierarchyCalls>>
  /\ UNCHANGED <<viewVars, thumbVars, modalVars, stlVars>>

\* The effect on [isExpanded, urlModelo, hierarchy.length,
\* isLoadingHierarchy], run after a render in which one of them changed.
HierarchyEffect(p) ==
  /\ hierarchyEffectDue[p]
  /\ IF isExpanded[p] /\ Len(hierarchy[p]) = 0 /\ ~isLoadingHierarchy[p]
     THEN /\ hierarchyCalls[p] < MaxHierarchyCalls
          /\ isLoadingHierarchy' = [isLoadingHierarchy EXCEPT ![p] = TRUE]
          /\ hierarchyPending' = [hierarchyPending EXCEPT ![p] = hierarchyPending[p] + 1]
          /\ hierarchyCalls' = [hierarchyCalls EXCEPT ![p] = hierarchyCalls[p] + 1]
          /\ expansionCalls' = [expansionCalls EXCEPT ![p] = expansionCalls[p] + 1]
          /\ UNCHANGED hierarchyEffectDue
          /\ lastPecaOp' = [op |-> "load", peca |-> p]
     ELSE /\ hierarchyEffectDue' = [hierarchyEffectDue EXCEPT ![p] = FALSE]
          /\ lastPecaOp' = [op |-> "effect", peca |-> p]
          /\ UNCHANGED <<isLoadingHierarchy, hierarchyPending, hierarchyCalls,
                         expansionCalls>>
  /\ UNCHANGED <<hierarchyCache, pecaMounted, isExpanded, hierarchy>>
  /\ UNCHANGED <<viewVars, thumbVars, modalVars, stlVars>>

\* The promise of getTopLevelNodes fulfils (it never rejects): then sets
\* hierarchy and the cache, finally clears isLoadingHierarchy.
HierarchyLoaded(p, loaded) ==
  /\ hierarchyPending[p] > 0
  /\ hierarchyPending' = [hierarchyPending EXCEPT ![p] = hierarchyPending[p] - 1]
  /\ LET nodes == getTopLevelNodes(PecaUrl(p), loaded)
     IN  /\ hierarchy' = [hierarchy EXCEPT ![p] = nodes]
         /\ hierarchyCache' =
              [u \in DOMAIN hierarchyCache \cup {PecaUrl(p)} |->
                 IF u = PecaUrl(p) THEN nodes ELSE hierarchyCache[u]]
  /\ isLoadingHierarchy' = [isLoadingHierarchy EXCEPT ![p] = FALSE]
  /\ hierarchyEffectDue' = [hierarchyEffectDue EXCEPT ![p] = TRUE]
  /\ lastPecaOp' = [op |-> "loaded", peca |-> p]
  /\ UNCHANGED <<pecaMounted, isExpanded, hierarchyCalls, expansionCalls>>
  /\ UNCHANGED <<viewVars, thumbVars, modalVars, stlVars>>

(* -------------------------- VisualizadorModal ------------------------- *)

\* VisualizadorModal renders one View3D with modelUrl = urlModelo,
\* isolatedPart = its state isolatedPartObject and selectedPartName = its
\* state selectedPartName; the variables isolatedPart and selectedPartName
\* stand for both.  onModelError is an inline function, so every render
\* of the modal re-runs View3D's setup effect.

ModalUrl == "a"

\* The parts a modal is opened for: one the asset has, one it has not.
ModalParts == {<<"b", "r">>, <<"z", "z">>}

\* One run of the load effect: cancelled is its closure's flag, pc the
\* position of loadIsolatedPart: "idle" (not called), "pending" (awaiting
\* loadGLB), "applied" (part set), "notFound", "dropped" (resolved after
\* the cleanup: the model was disposed), "failed".
BlankModalRun ==
  [made |-> FALSE, cancelled |-> FALSE, pc |-> "idle", part |-> Null]

\* The object extractPartByName returns for a part of the modal's asset;
\* 0: null.
ExtractedObject(partName) ==
  IF ExtractedNode(ModalUrl, partName) = 0 THEN 0
  ELSE CHOOSE o \in IsoParts : IsoPartName(o) = Trim(ToLowerCase(partName))

\* A render of the modal as View3D sees it: the cleanup of the live
\* session, the cleanup of the modal's effect on [isolatedPartObject] if
\* that state changed from the object old, the setup of a new session,
\* and the selectedPartName effect if one of its dependencies changed.
ModalRender(W, old, iso, name, selChanged) ==
  LET s  == W.sceneRef
      W1 == CleanupEffect(W, s)
      W2 == IF old # 0 /\ old # iso
            THEN [W1 EXCEPT !.objs = DisposeBy(W1.objs, old, "VisualizadorModal")]
            ELSE W1
      W3 == SetupEffect(W2, s + 1, ModalUrl, iso)
      W4 == [W3 EXCEPT !.sess[s + 1].replaced = W.sess[s].addedObject]
  IN  IF selChanged \/ old # iso
      THEN SelectedPartNameEffect(W4, iso, name)
      ELSE W4

\* The modal mounts for a part (Null: the whole assembly).  View3D mounts
\* without isolated part; the load effect starts loadIsolatedPart, or,
\* without a part, clears isLoadingPart, which renders the modal again.
ModalOpen(part) ==
  /\ ~modalMounted
  /\ nModalRuns = 0
  /\ ~mounted
  /\ nSessions = 0
  /\ modalMounted' = TRUE
  /\ initialSelectedPart' = part
  /\ mounted' = TRUE
  /\ modelUrl' = ModalUrl
  /\ isolatedPart' = 0
  /\ thumbnailMode' = FALSE
  /\ selectedPartName' = part
  /\ nModalRuns' = 1
  /\ LET W1 == SelectedPartNameEffect(SetupEffect(World, 1, ModalUrl, 0), 0, part)
     IN  IF part # Null
         THEN /\ Commit(W1)
              /\ nSessions' = 1
              /\ modalIsLoadingPart' = TRUE
              /\ modalRuns' = [modalRuns EXCEPT ![1] =
                     [made |-> TRUE, cancelled |-> FALSE, pc |-> "pending",
                      part |-> part]]
         ELSE /\ Commit(ModalRender(W1, 0, 0, part, FALSE))
              /\ nSessions' = 2
              /\ modalIsLoadingPart' = FALSE
              /\ modalRuns' = [modalRuns EXCEPT ![1] =
                     [made |-> TRUE, cancelled |-> FALSE, pc |-> "idle",
                      part |-> part]]
  /\ lastOp' = Op("mount", 0, part)
  /\ lastModalOp' = [op |-> "open", run |-> 1]
  /\ UNCHANGED <<thumbVars, pecaVars, stlVars>>

\* urlModelo or initialSelectedPart changes while the part is loading:
\* the modal renders, the cleanup of the load effect sets cancelled and
\* a new run starts loadIsolatedPart.
ModalPropsChange(part) ==
  /\ modalMounted
  /\ modalIsLoadingPart
  /\ part # initialSelectedPart
  /\ nModalRuns < MaxModalRuns
  /\ nSessions < MaxSessions
  /\ initialSelectedPart' = part
  /\ nModalRuns' = nModalRuns + 1
  /\ nSessions' = nSessions + 1
  /\ modalRuns' = [modalRuns EXCEPT
                      ![nModalRuns].cancelled = TRUE,
                      ![nModalRuns + 1] =
                         [made |-> TRUE, cancelled |-> FALSE, pc |-> "pending",
                          part |-> part]]
  /\ Commit(ModalRender(World, isolatedPart, isolatedPart, selectedPartName, FALSE))
  /\ lastOp' = Op("props", 0, Null)
  /\ lastModalOp' = [op |-> "props", run |-> nModalRuns + 1]
  /\ UNCHANGED <<mounted, modelUrl, isolatedPart, thumbnailMode,
                 selectedPartName, modalMounted, modalIsLoadingPart>>
  /\ UNCHANGED <<thumbVars, pecaVars, stlVars>>

\* A finally block that clears the flag for cancelled runs too.
LoadingAfterFinally_Always(r) == FALSE

\* isLoadingPart after the finally block of run r:
\* if (!cancelled) setIsLoadingPart(false).
LoadingAfterFinally(r) == IF modalRuns[r].cancelled THEN modalIsLoadingPart ELSE FALSE

\* loadIsolatedPart of run r after await loadGLB resolves.
ModalLoadResolve(r) ==
  /\ modalRuns[r].pc = "pending"
  /\ LET full == 10 + r
         O0 == [objs EXCEPT ![full] = LoadedObject(ModalUrl)]
         O1 == DisposeBy(O0, full, "VisualizadorModal")
     IN  IF modalRuns[r].cancelled
         THEN /\ objs' = O1
              /\ modalRuns' = [modalRuns EXCEPT ![r].pc = "dropped"]
              /\ UNCHANGED <<modelUrl, isolatedPart, thumbnailMode,
                             selectedPartName, mounted, sceneRef, isModelLoaded,
                             loadProgress, currentSelectedPart, isLoadingPart,
                             sess, nSessions, modelLoadedLog, modelErrorLog,
                             lastPartSelected>>
              /\ modalIsLoadingPart' = LoadingAfterFinally(r)
              /\ UNCHANGED lastOp
         ELSE LET p  == ExtractedObject(modalRuns[r].part)
                  O2 == IF p = 0 THEN O1
                        ELSE [O1 EXCEPT ![p] =
                                extractPartByName(ModalUrl, modalRuns[r].part)]
                  iso == IF p = 0 THEN isolatedPart ELSE p
              IN  /\ nSessions < MaxSessions
                  /\ nSessions' = nSessions + 1
                  /\ isolatedPart' = iso
                  /\ modalIsLoadingPart' = LoadingAfterFinally(r)
                  /\ modalRuns' = [modalRuns EXCEPT ![r].pc =
                                      IF p = 0 THEN "notFound" ELSE "applied"]
                  /\ Commit(ModalRender([World EXCEPT !.objs = O2],
                                        isolatedPart, iso, selectedPartName, FALSE))
                  /\ lastOp' = Op("props", 0, Null)
                  /\ UNCHANGED <<modelUrl, thumbnailMode, selectedPartName, mounted>>
  /\ lastModalOp' = [op |-> "resolve", run |-> r]
  /\ UNCHANGED <<modalMounted, initialSelectedPart, nModalRuns>>
  /\ UNCHANGED <<thumbVars, pecaVars, stlVars>>

\* loadIsolatedPart of run r after await loadGLB rejects: the error is
\* logged; a run that was not cancelled clears isLoadingPart.
ModalLoadReject(r) ==
  /\ modalRuns[r].pc = "pending"
  /\ modalRuns' = [modalRuns EXCEPT ![r].pc = "failed"]
  /\ IF modalRuns[r].cancelled
     THEN /\ UNCHANGED viewVars
          /\ modalIsLoadingPart' = LoadingAfterFinally(r)
     ELSE /\ nSessions < MaxSessions
          /\ nSessions' = nSessions + 1
          /\ modalIsLoadingPart' = LoadingAfterFinally(r)
          /\ Commit(ModalRender(World, isolatedPart, isolatedPart,
                                selectedPartName, FALSE))
          /\ lastOp' = Op("props", 0, Null)
          /\ UNCHANGED <<modelUrl, isolatedPart, thumbnailMode,
                         selectedPartName, mounted>>
  /\ lastModalOp' = [op |-> "reject", run |-> r]
  /\ UNCHANGED <<modalMounted, initialSelectedPart, nModalRuns>>
  /\ UNCHANGED <<thumbVars, pecaVars, stlVars>>

\* The modal unmounts (its parent closes it): the cleanups of View3D's
\* setup effect, of the load effect and of the effect on
\* [isolatedPartObject] run; the last disposes the object old that its
\* closure holds.
ModalUnmount(W, old) ==
  LET W1 == CleanupEffect(W, W.sceneRef)
  IN  IF old # 0
      THEN [W1 EXCEPT !.objs = DisposeBy(W1.objs, old, "VisualizadorModal")]
      ELSE W1

\* A click on the backdrop: onClose().
ModalClose ==
  /\ modalMounted
  /\ modalMounted' = FALSE
  /\ mounted' = FALSE
  /\ modalRuns' = [modalRuns EXCEPT ![nModalRuns].cancelled = TRUE]
  /\ Commit(ModalUnmount(World, isolatedPart))
  /\ lastOp' = Op("unmount", 0, Null)
  /\ lastModalOp' = [op |-> "close", run |-> nModalRuns]
  /\ UNCHANGED <<modelUrl, isolatedPart, thumbnailMode, selectedPartName,
                 nSessions, initialSelectedPart, modalIsLoadingPart, nModalRuns>>
  /\ UNCHANGED <<thumbVars, pecaVars, stlVars>>

\* A click on "Fechar": the isolated object, if any, is disposed and the
\* state cleared, then onClose() unmounts the modal.
Fechar ==
  /\ modalMounted
  /\ modalMounted' = FALSE
  /\ mounted' = FALSE
  /\ modalRuns' = [modalRuns EXCEPT ![nModalRuns].cancelled = TRUE]
  /\ LET O1 == IF isolatedPart # 0
               THEN DisposeBy(objs, isolatedPart, "VisualizadorModal")
               ELSE objs
     IN  Commit(ModalUnmount([World EXCEPT !.objs = O1], isolatedPart))
  /\ lastOp' = Op("unmount", 0, Null)
  /\ lastModalOp' = [op |-> "fechar", run |-> nModalRuns]
  /\ UNCHANGED <<modelUrl, isolatedPart, thumbnailMode, selectedPartName,
                 nSessions, initialSelectedPart, modalIsLoadingPart, nModalRuns>>
  /\ UNCHANGED <<thumbVars, pecaVars, stlVars>>

\* A click on "Ver Montagem Completa": selectedPartName is cleared, the
\* isolated object, if any, is disposed and the state cleared.  If a
\* state changed the modal renders.
VerMontagemCompleta ==
  /\ modalMounted
  /\ IF selectedPartName = Null /\ isolatedPart = 0
     THEN UNCHANGED viewVars
     ELSE /\ nSessions < MaxSessions
          /\ nSessions' = nSessions + 1
          /\ selectedPartName' = Null
          /\ isolatedPart' = 0
          /\ LET O1 == IF isolatedPart # 0
                       THEN DisposeBy(objs, isolatedPart, "VisualizadorModal")
                       ELSE objs
             IN  Commit(ModalRender([World EXCEPT !.objs = O1], isolatedPart, 0,
                                    Null, selectedPartName # Null))
          /\ lastOp' = Op("props", 0, Null)
          /\ UNCHANGED <<modelUrl, thumbnailMode, mounted>>
  /\ lastModalOp' = [op |-> "verMontagem", run |-> nModalRuns]
  /\ UNCHANGED <<modalMounted, initialSelectedPart, modalIsLoadingPart,
                 modalRuns, nModalRuns>>
  /\ UNCHANGED <<thumbVars, pecaVars, stlVars>>

(* --------------------------- VisualizadorSTL -------------------------- *)

\* The files dropped on the viewer.
StlUrls == {"x", "y"}

\* clearCurrentMesh: the mesh meshRef holds leaves the scene and is
\* disposed.  The refs to the scene are not cleared at unmount, so the
\* test on the scene passes whenever the component has mounted.
clearCurrentMesh ==
  /\ stlScene' = stlScene \ {stlMeshRef}
  /\ stlDisposed' = IF stlMeshRef # 0 THEN stlDisposed \cup {stlMeshRef}
                                       ELSE stlDisposed

\* The mount effect: setupThree, animate, the listeners.
StlMount ==
  /\ stlPhase = "none"
  /\ stlPhase' = "mounted"
  /\ lastStlOp' = [op |-> "mount", load |-> 0]
  /\ UNCHANGED <<stlLoads, nStlLoads, stlMeshRef, stlScene, stlDisposed,
                 viewerState>>
  /\ UNCHANGED <<viewVars, thumbVars, pecaVars, modalVars>>

\* A file that is not .stl is dropped or chosen.
StlWrongFile ==
  /\ stlPhase = "mounted"
  /\ viewerState' = [loading |-> FALSE, error |-> TRUE]
  /\ lastStlOp' = [op |-> "wrongFile", load |-> 0]
  /\ UNCHANGED <<stlPhase, stlLoads, nStlLoads, stlMeshRef, stlScene,
                 stlDisposed>>
  /\ UNCHANGED <<viewVars, thumbVars, pecaVars, modalVars>>

\* loadSTL(url) up to its await.
loadSTL(url) ==
  /\ stlPhase = "mounted"
  /\ nStlLoads < MaxStlLoads
  /\ nStlLoads' = nStlLoads + 1
  /\ stlLoads' = [stlLoads EXCEPT ![nStlLoads + 1] =
                     [pc |-> "pending", url |-> url]]
  /\ viewerState' = [loading |-> TRUE, error |-> FALSE]
  /\ lastStlOp' = [op |-> "load", load |-> nStlLoads + 1]
  /\ UNCHANGED <<stlPhase, stlMeshRef, stlScene, stlDisposed>>
  /\ UNCHANGED <<viewVars, thumbVars, pecaVars, modalVars>>

\* loadSTL after its await, the loader having called back with the
\* geometry of load k: the current mesh is cleared, the new mesh is
\* added to the scene and kept in meshRef.
StlResolve(k) ==
  /\ stlLoads[k].pc = "pending"
  /\ stlLoads' = [stlLoads EXCEPT ![k].pc = "attached"]
  /\ stlScene' = (stlScene \ {stlMeshRef}) \cup {k}
  /\ stlDisposed' = IF stlMeshRef # 0 THEN stlDisposed \cup {stlMeshRef}
                                       ELSE stlDisposed
  /\ stlMeshRef' = k
  /\ viewerState' = [loading |-> FALSE, error |-> FALSE]
  /\ lastStlOp' = [op |-> "resolve", load |-> k]
  /\ UNCHANGED <<stlPhase, nStlLoads>>
  /\ UNCHANGED <<viewVars, thumbVars, pecaVars, modalVars>>

\* loadSTL after its await, the loader having failed: the catch block.
StlReject(k) ==
  /\ stlLoads[k].pc = "pending"
  /\ stlLoads' = [stlLoads EXCEPT ![k].pc = "failed"]
  /\ viewerState' = [loading |-> FALSE, error |-> TRUE]
  /\ lastStlOp' = [op |-> "reject", load |-> k]
  /\ UNCHANGED <<stlPhase, nStlLoads, stlMeshRef, stlScene, stlDisposed>>
  /\ UNCHANGED <<viewVars, thumbVars, pecaVars, modalVars>>

\* The cleanup of the mount effect.
StlUnmount ==
  /\ stlPhase = "mounted"
  /\ stlPhase' = "unmounted"
  /\ clearCurrentMesh
  /\ stlMeshRef' = 0
  /\ lastStlOp' = [op |-> "unmount", load |-> 0]
  /\ UNCHANGED <<stlLoads, nStlLoads, viewerState>>
  /\ UNCHANGED <<viewVars, thumbVars, pecaVars, modalVars>>

(* --------------------------- specifications --------------------------- *)

Init ==
  /\ modelUrl = "a"
  /\ isolatedPart = 0
  /\ thumbnailMode = FALSE
  /\ selectedPartName = Null
  /\ mounted = FALSE
  /\ sceneRef = 0
  /\ isModelLoaded = FALSE
  /\ loadProgress = 0
  /\ currentSelectedPart = Null
  /\ isLoadingPart = TRUE
  /\ sess = [s \in Sessions |-> BlankSession]
  /\ nSessions = 0
  /\ objs = [o \in ObjIds |->
               IF o \in IsoParts THEN extractPartByName("a", IsoPartName(o))
               ELSE BlankObject]
  /\ modelLoadedLog = {}
  /\ modelErrorLog = <<>>
  /\ lastPartSelected = Unset
  /\ lastOp = [op |-> "init", node |-> 0, name |-> Null, before |-> Null]
  /\ thumbnailCache = [k \in {} |-> NoImage]
  /\ thumbDataUrl = [i \in Minis |-> NoImage]
  /\ isVisible = [i \in Minis |-> FALSE]
  /\ hasError = [i \in Minis |-> FALSE]
  /\ isProcessing = [i \in Minis |-> FALSE]
  /\ miniMounted = [i \in Minis |-> FALSE]
  /\ effectDue = [i \in Minis |-> FALSE]
  /\ loading = [i \in Minis |-> 0]
  /\ rendered = [i \in Minis |-> 0]
  /\ started = [i \in Minis |-> 0]
  /\ lastMiniOp = [op |-> "init", inst |-> 0, retry |-> FALSE, cached |-> FALSE,
                   loads |-> 0, render |-> NoRender, loaded |-> FALSE,
                   modelGroupDisposed |-> FALSE]
  /\ keyRequests = {}
  /\ hierarchyCache = [u \in {} |-> <<>>]
  /\ pecaMounted = [p \in Pecas |-> FALSE]
  /\ isExpanded = [p \in Pecas |-> FALSE]
  /\ hierarchy = [p \in Pecas |-> <<>>]
  /\ isLoadingHierarchy = [p \in Pecas |-> FALSE]
  /\ hierarchyEffectDue = [p \in Pecas |-> FALSE]
  /\ hierarchyPending = [p \in Pecas |-> 0]
  /\ hierarchyCalls = [p \in Pecas |-> 0]
  /\ expansionCalls = [p \in Pecas |-> 0]
  /\ lastPecaOp = [op |-> "init", peca |-> 0]
  /\ modalMounted = FALSE
  /\ initialSelectedPart = Null
  /\ modalIsLoadingPart = TRUE
  /\ modalRuns = [r \in 1..MaxModalRuns |-> BlankModalRun]
  /\ nModalRuns = 0
  /\ lastModalOp = [op |-> "init", run |-> 0]
  /\ stlPhase = "none"
  /\ stlLoads = [k \in 1..MaxStlLoads |-> [pc |-> "idle", url |-> ""]]
  /\ nStlLoads = 0
  /\ stlMeshRef = 0
  /\ stlScene = {}
  /\ stlDisposed = {}
  /\ viewerState = [loading |-> FALSE, error |-> FALSE]
  /\ lastStlOp = [op |-> "init", load |-> 0]

Next ==
  \/ \E u \in Urls, i \in {0} \cup IsoParts, t \in BOOLEAN,
        p \in {Null} \cup NameInputs : Mount(u, i, t, p)
  \/ \E u \in Urls, i \in {0} \cup IsoParts : PropsChange(u, i)
  \/ \E p \in {Null} \cup NameInputs : SelectedPartNameChange(p)
  \/ \E hit \in 0..6 : Click(hit)
  \/ \E p \in {Null} \cup NameInputs : HighlightPartByName(p)
  \/ \E s \in Sessions, pv \in ProgressValues : LoadProgress(s, pv)
  \/ \E s \in Sessions : LoadResolve(s)
  \/ \E s \in Sessions, cause \in Causes : LoadReject(s, cause)
  \/ Unmount

Spec == Init /\ [][Next]_vars

\* View3D's render loop with mounting, prop changes, load outcomes and
\* unmounting.
LoopNext ==
  \/ \E u \in Urls, i \in {0} \cup IsoParts : Mount(u, i, FALSE, Null)
  \/ \E u \in Urls, i \in {0} \cup IsoParts : PropsChange(u, i)
  \/ \E s \in Sessions, throws \in BOOLEAN : Tick(s, throws)
  \/ \E s \in Sessions : LoadResolve(s)
  \/ \E s \in Sessions, cause \in Causes : LoadReject(s, cause)
  \/ Unmount

LoopSpec == Init /\ [][LoopNext]_vars

ThumbNext ==
  \/ \E i \in Minis : MiniMount(i)
  \/ \E i \in Minis : BecomeVisible(i)
  \/ \E i \in Minis : VisibilityEffect(i)
  \/ \E i \in Minis : Retry(i)
  \/ \E i \in Minis : TransitionSettled(i)
  \/ \E i \in Minis, loaded \in BOOLEAN, fault \in RenderFaults :
       GenerationSettles(i, loaded, fault)
  \/ \E i \in Minis : GenerationFinishes(i)

ThumbSpec == Init /\ [][ThumbNext]_vars

PecaNext ==
  \/ \E p \in Pecas : PecaMount(p)
  \/ \E p \in Pecas : ToggleExpanded(p)
  \/ \E p \in Pecas : HierarchyEffect(p)
  \/ \E p \in Pecas, loaded \in BOOLEAN : HierarchyLoaded(p, loaded)

PecaSpec == Init /\ [][PecaNext]_vars

\* VisualizadorModal with the View3D it renders.
ModalNext ==
  \/ \E part \in {Null} \cup ModalParts : ModalOpen(part)
  \/ \E part \in ModalParts : ModalPropsChange(part)
  \/ \E r \in 1..MaxModalRuns : ModalLoadResolve(r)
  \/ \E r \in 1..MaxModalRuns : ModalLoadReject(r)
  \/ ModalClose
  \/ Fechar
  \/ VerMontagemCompleta
  \/ \E hit \in 0..6 : Click(hit)
  \/ \E s \in Sessions : LoadResolve(s)
  \/ \E s \in Sessions, cause \in Causes : LoadReject(s, cause)

ModalSpec == Init /\ [][ModalNext]_vars

\* VisualizadorSTL.
StlNext ==
  \/ StlMount
  \/ StlWrongFile
  \/ \E url \in StlUrls : loadSTL(url)
  \/ \E k \in 1..MaxStlLoads : StlResolve(k)
  \/ \E k \in 1..MaxStlLoads : StlReject(k)
  \/ StlUnmount

StlSpec == Init /\ [][StlNext]_vars

\* The cache keys of Miniatura3D.
KeyNext == \E url \in KeyUrls, partName \in KeyPartNames : KeyRequest(url, partName)

KeySpec == Init /\ [][KeyNext]_vars

(* ------------------------------- claims ------------------------------- *)

\* The live session's model: the object handlers act on, 0 if none.
LiveMesh == IF sceneRef = 0 THEN 0 ELSE sess[sceneRef].mesh

\* The meshes of object o that carry the highlight material.
Highlighted(o) == {n \in DOMAIN objs[o].mat : objs[o].mat[n] = HighlightMaterial}

\* The framing fitCameraToObject gives session s for node n of object o.
Framed(s, o, n) ==
  /\ sess[s].camTarget = BoxOf(objs, o, n).center
  /\ sess[s].camDim = (IF BoxOf(objs, o, n).size > 0 THEN BoxOf(objs, o, n).size
                       ELSE SAFE_DIM)

\* C1: a load superseded by a newer load or by teardown has no effect when
\* it resolves: a cleaned-up session has nothing attached to its scene and
\* an empty snapshot store, and a load that resolves in a cleaned-up
\* session is not reported through onModelLoaded.
C1_StaleLoadDiscarded ==
  \A s \in Sessions :
    sess[s].torn =>
      /\ SceneObjs(objs, s) = {}
      /\ sess[s].mesh = 0
      /\ sess[s].originalMaterials = EmptyStore
      /\ (lastOp.op = "resolve" /\ lastOp.node = s) => s \notin modelLoadedLog

\* C2: for every attached model, after any sequence of click and
\* name-driven highlight operations, resetModelColor gives every mesh a
\* material equal in value to the one it had when the model was attached.
C2_ResetRestoresAttachMaterials ==
  \A s \in Sessions :
    sess[s].mesh # 0 =>
      resetModelColor(objs, sess[s].originalMaterials)[sess[s].mesh].mat
        = sess[s].matAtAttach

\* C2 witness: a click selected a part while another selection was
\* active, so the snapshot was taken again after a highlight; a mesh with
\* an array of materials is highlighted now, and resetModelColor restores
\* the materials of attach time.
C2_Witness ==
  /\ lastOp.op = "click"
  /\ lastOp.before # Null
  /\ currentSelectedPart # Null
  /\ LiveMesh # 0
  /\ \E n \in Highlighted(LiveMesh) : sess[sceneRef].matAtAttach[n].multi
  /\ resetModelColor(objs, sess[sceneRef].originalMaterials)[LiveMesh].mat
       = sess[sceneRef].matAtAttach

\* The last handler was a click that hit nothing or hit the root of the
\* attached model.
ClickedNothingOrRoot ==
  /\ lastOp.op = "click"
  /\ \/ lastOp.node = 0
     \/ LiveMesh # 0 /\ lastOp.node = objs[LiveMesh].root

\* A click of that kind cleared everything: no selection, null reported,
\* every mesh of the attached model at its snapshot material.
SelectionCleared ==
  /\ currentSelectedPart = Null
  /\ lastPartSelected = Null
  /\ LiveMesh # 0 =>
       \A n \in DOMAIN objs[LiveMesh].mat :
         /\ <<LiveMesh, n>> \in DOMAIN sess[sceneRef].originalMaterials
         /\ objs[LiveMesh].mat[n] = sess[sceneRef].originalMaterials[<<LiveMesh, n>>]

\* C3 as stated: whatever part was selected before it, a click that hits
\* nothing or hits the root model ends with no selection,
\* onPartSelected(null) reported and every mesh at its snapshot material.
C3_ClickNothingAlwaysClears ==
  (ClickedNothingOrRoot /\ lastOp.before # Null) => SelectionCleared

\* C3 amended: the same, for a view that is not in thumbnailMode and has a
\* model attached.
C3_ClickNothingClearsWhenInteractive ==
  (ClickedNothingOrRoot /\ ~thumbnailMode /\ LiveMesh # 0) => SelectionCleared

\* C3 witness: with a part selected and a model attached, a click on
\* empty space cleared the selection and the highlight.
C3_Witness ==
  /\ lastOp.op = "click"
  /\ lastOp.node = 0
  /\ lastOp.before # Null
  /\ ~thumbnailMode
  /\ LiveMesh # 0
  /\ SelectionCleared

\* C4: after a click on empty space deselected a highlighted part, the
\* camera is framed on the whole model: the controls' target is the centre
\* of the model's bounding box.
C4_EmptyClickReframesWholeModel ==
  ( /\ lastOp.op = "click"
    /\ lastOp.node = 0
    /\ lastOp.before # Null
    /\ ~thumbnailMode
    /\ LiveMesh # 0 )
  => /\ currentSelectedPart = Null
     /\ Highlighted(LiveMesh) = {}
     /\ Framed(sceneRef, LiveMesh, objs[LiveMesh].root)

\* The last handler selected a part by name, and the attached model has a
\* node that findNodeByBaseName matches with the name.
SelectedByName ==
  /\ lastOp.op \in {"selectProp", "highlightPartByName"}
  /\ lastOp.name # Null
  /\ LiveMesh # 0
  /\ findNodeByBaseName(objs, LiveMesh, lastOp.name) # 0

\* The node a selection by name matched.
NamedTarget == findNodeByBaseName(objs, LiveMesh, lastOp.name)

\* C5 as stated: with a model attached, selecting by name a part that
\* matches a node leaves every mesh under the node highlighted, the camera
\* framed on the node's bounding box and getSelectedPartName() = the name.
C5_SelectByNameHighlightsAndFrames ==
  SelectedByName =>
    /\ MeshesUnder(objs[LiveMesh].url, NamedTarget) \subseteq Highlighted(LiveMesh)
    /\ Framed(sceneRef, LiveMesh, NamedTarget)
    /\ currentSelectedPart = lastOp.name

\* C5 amended: the same through highlightPartByName, and through the
\* selectedPartName prop when no isolated part is shown; the camera is
\* framed on the node when the node holds at least one mesh.
C5_SelectByNameOutsideIsolation ==
  (SelectedByName /\ (lastOp.op = "selectProp" => isolatedPart = 0)) =>
    /\ MeshesUnder(objs[LiveMesh].url, NamedTarget) \subseteq Highlighted(LiveMesh)
    /\ MeshesUnder(objs[LiveMesh].url, NamedTarget) # {} =>
         Framed(sceneRef, LiveMesh, NamedTarget)
    /\ currentSelectedPart = lastOp.name

\* C5 witness: the selectedPartName prop selected a part of a whole model;
\* the part's node is not the root and its meshes are highlighted.
C5_Witness ==
  /\ SelectedByName
  /\ lastOp.op = "selectProp"
  /\ isolatedPart = 0
  /\ NamedTarget # objs[LiveMesh].root
  /\ Highlighted(LiveMesh) = MeshesUnder(objs[LiveMesh].url, NamedTarget)
  /\ Highlighted(LiveMesh) # {}
  /\ Framed(sceneRef, LiveMesh, NamedTarget)
  /\ currentSelectedPart = lastOp.name

\* The node a click on mesh hit resolves to in the attached model.
ClickedPart == ClimbToPart(objs, LiveMesh, lastOp.node)

\* C6: the identity a click reports (onPartSelected, getSelectedPartName)
\* is the PartIdentity of the clicked part as the lookups derive it: the
\* text before the first "-", trimmed and lower-cased.
C6_ClickReportsPartIdentity ==
  ( /\ lastOp.op = "click"
    /\ lastOp.node # 0
    /\ LiveMesh # 0
    /\ ~thumbnailMode
    /\ currentSelectedPart # Null )
  => /\ currentSelectedPart = cleanNodeName(SelName(objs, LiveMesh, ClickedPart))
     /\ lastPartSelected = cleanNodeName(SelName(objs, LiveMesh, ClickedPart))
     /\ findNodeByBaseName(objs, LiveMesh, currentSelectedPart) # 0

\* C7: selection is keyed by PartIdentity: a click that selects a part
\* highlights the same meshes as selecting the reported identity by name
\* would, the meshes under the node findNodeByBaseName gives for it.
C7_ClickHighlightsWhatNameWould ==
  ( /\ lastOp.op = "click"
    /\ lastOp.node # 0
    /\ LiveMesh # 0
    /\ ~thumbnailMode
    /\ currentSelectedPart # Null )
  => Highlighted(LiveMesh) =
       MeshesUnder(objs[LiveMesh].url,
                   findNodeByBaseName(objs, LiveMesh, currentSelectedPart))

\* C8: when the cache holds an entry for an instance's key, a non-retry
\* generateThumbnail of the instance sets the instance's image to the
\* cached value and starts no load.
C8_CacheHitShortCircuits ==
  (lastMiniOp.op = "generate" /\ ~lastMiniOp.retry /\ lastMiniOp.cached) =>
    /\ lastMiniOp.loads = 0
    /\ thumbDataUrl[lastMiniOp.inst] = thumbnailCache[MiniKey(lastMiniOp.inst)]

\* C8 witness: an instance that had no image ran generateThumbnail while
\* the cache held its key, and shows the cached image with no load started
\* by it, ever.
C8_Witness ==
  /\ lastMiniOp.op = "generate"
  /\ lastMiniOp.cached
  /\ lastMiniOp.loads = 0
  /\ started[lastMiniOp.inst] = 0
  /\ thumbDataUrl[lastMiniOp.inst] = thumbnailCache[MiniKey(lastMiniOp.inst)]
  /\ thumbDataUrl[lastMiniOp.inst] # NoImage

\* The generations in flight for a cache key: started and neither failed
\* nor written to the cache yet.
InFlight(k) ==
  LET is == {i \in Minis : MiniKey(i) = k}
      Sum[S \in SUBSET is] ==
        IF S = {} THEN 0
        ELSE LET i == CHOOSE x \in S : TRUE
             IN  loading[i] + rendered[i] + Sum[S \ {i}]
  IN  Sum[is]

\* C9: at most one load/extract/render is in flight for a cache key at
\* any time.
C9_OneGenerationPerKey ==
  \A i \in Minis : InFlight(MiniKey(i)) <= 1

\* C10: once the cache holds a value for a key, no step writes the key
\* again and no step removes it.
C10_EntriesWrittenOnce ==
  [][\A k \in DOMAIN thumbnailCache :
       /\ k \in DOMAIN thumbnailCache'
       /\ ~(lastMiniOp'.op = "finish" /\ MiniKey(lastMiniOp'.inst) = k)]_vars

\* C11: after the teardown of a session none of the listeners its setup
\* registered (the two window resize listeners, window pointerup, canvas
\* pointerdown and mousedown) is still registered.
C11_TeardownDetachesListeners ==
  \A s \in Sessions : sess[s].torn => sess[s].listeners = {}

\* C12: in a teardown the snapshot store is cleared in the same step as
\* the attached model is disposed: the store of a cleaned-up session never
\* holds a mesh of a disposed subtree.
C12_StoreClearedWithDisposal ==
  \A s \in Sessions :
    sess[s].torn =>
      \A k \in DOMAIN sess[s].originalMaterials : ~objs[k[1]].geometryDisposed

\* C12 witness: a session that had loaded a model was cleaned up: the
\* model is disposed and detached, and the store is empty.
C12_Witness ==
  \E s \in Sessions :
    /\ sess[s].torn
    /\ objs[s].made
    /\ objs[s].geometryDisposed
    /\ objs[s].parent = 0
    /\ sess[s].originalMaterials = EmptyStore

C14_FailedLoadKeepsPreviousModel ==
  (lastOp.op = "reject" /\ lastOp.node = sceneRef) =>
    LET s == sceneRef
        p == sess[s].replaced
    IN  IF p # 0
        THEN /\ objs[p].parent = s
             /\ sess[s].mesh = p
             /\ ~objs[p].geometryDisposed
        ELSE SceneObjs(objs, s) = {} /\ sess[s].mesh = 0

\* The calls of onModelError made for the load of session s.
ErrorReports(s) ==
  {i \in DOMAIN modelErrorLog : modelErrorLog[i].session = s}

\* C15: when the loader rejects a load, onModelError has been called
\* exactly once for it, with the cause the loader failed with; nothing is
\* attached to the session's scene or recorded in its snapshot store, and
\* the loading indicator of a mounted view is cleared.
C15_RejectedLoadReportedOnce ==
  lastOp.op = "reject" =>
    LET s == lastOp.node
    IN  /\ Cardinality(ErrorReports(s)) = 1
        /\ \A i \in ErrorReports(s) : modelErrorLog[i].error = sess[s].loadError
        /\ sess[s].loadError \in Causes
        /\ sess[s].mesh = 0
        /\ SceneObjs(objs, s) = {}
        /\ sess[s].originalMaterials = EmptyStore
        /\ mounted => ~isLoadingPart

\* C15 witness: the load of the live session of a mounted view was
\* rejected with a decoding error, which onModelError received.
C15_Witness ==
  /\ lastOp.op = "reject"
  /\ lastOp.node = sceneRef
  /\ mounted
  /\ sess[sceneRef].loadError = "decode"
  /\ \E i \in DOMAIN modelErrorLog :
        modelErrorLog[i] = [session |-> sceneRef, error |-> "decode"]
  /\ ~isLoadingPart

\* C16: while an isolated part is shown, after a click, a change of
\* selectedPartName or a call of highlightPartByName every mesh of the part
\* still carries the highlight applied at load and the camera still frames
\* the whole part.
C16_IsolatedPartIgnoresSelection ==
  (/\ mounted
   /\ isolatedPart # 0
   /\ LiveMesh = isolatedPart
   /\ lastOp.op \in {"click", "selectProp", "highlightPartByName"}) =>
    /\ Highlighted(LiveMesh) = DOMAIN objs[LiveMesh].mat
    /\ Framed(sceneRef, LiveMesh, objs[LiveMesh].root)

\* C17: from setup until teardown every render tick, throwing or not,
\* leaves exactly one next tick scheduled, also while a load is pending;
\* after teardown none is scheduled, so no tick runs.
C17_RenderLoopSurvivesExceptions ==
  \A s \in Sessions :
    sess[s].made => sess[s].rafPending = (IF sess[s].torn THEN 0 ELSE 1)

\* C17 witness: a tick threw while the load was pending, and the next
\* tick is scheduled.
C17_Witness ==
  \E s \in Sessions :
    /\ sess[s].made
    /\ ~sess[s].torn
    /\ sess[s].loadPc = "pending"
    /\ sess[s].ticks > 0
    /\ sess[s].lastTickThrew
    /\ sess[s].rafPending = 1

\* The first node in traversal order whose cleaned name equals the
\* cleaned partName; 0: none.
FirstMatchNode(url, partName) ==
  LET hits == {n \in AssetNodes(url) :
                 /\ NodeName(url, n) # <<>>
                 /\ cleanNodeName(NodeName(url, n)) = Trim(ToLowerCase(partName))}
  IN  IF hits = {} THEN 0 ELSE SetMin(hits)

\* C18: extractPartByName returns a clone of the first node in traversal
\* order that matches the requested part: the thumbnail an instance
\* generated for a part shows that node.
C18_ExtractReturnsFirstMatch ==
  \A i \in Minis :
    (lastMiniOp.op = "finish" /\ lastMiniOp.inst = i /\ MiniPart(i) # <<>>) =>
      thumbDataUrl[i].node = FirstMatchNode(MiniUrl(i), MiniPart(i))

Reserved ==
  {<<"d", "e", "f", "a", "u", "l", "t">>, <<"s", "c", "e", "n", "e">>}

\* C19: the list getTopLevelNodes returned for a row holds no reserved
\* identity ("default", "scene") and no identity twice.
C19_HierarchyWithoutReservedNames ==
  \A p \in Pecas :
    /\ \A i \in DOMAIN hierarchy[p] : hierarchy[p][i] \notin Reserved
    /\ \A i, j \in DOMAIN hierarchy[p] :
         hierarchy[p][i] = hierarchy[p][j] => i = j

\* C20: whenever a call of renderThumbnailToDataURL has ended, by
\* returning or by throwing, the model passed to it is no longer in the
\* throwaway scene and is disposed, and the renderer it created is
\* disposed.
C20_RenderConsumesItsInput ==
  lastMiniOp.render.called =>
    /\ ~lastMiniOp.render.inScene
    /\ lastMiniOp.render.modelDisposed
    /\ lastMiniOp.render.rendererCreated => lastMiniOp.render.rendererDisposed

\* The per-instance state of Miniatura3D instance j.
MiniState(j) ==
  <<thumbDataUrl[j], isVisible[j], hasError[j], isProcessing[j],
    miniMounted[j], effectDue[j], loading[j], rendered[j], started[j]>>

\* C21: a generation of instance i that fails (load error, part not
\* found, render error) leaves i without image and with the error flag,
\* writes nothing to the cache and changes no state of another instance.
C21_FailureStaysWithItsThumbnail ==
  [][(lastMiniOp'.op = "settle" /\ ~lastMiniOp'.render.returned) =>
       LET i == lastMiniOp'.inst
       IN  /\ hasError'[i]
           /\ thumbDataUrl'[i] = NoImage
           /\ thumbnailCache' = thumbnailCache
           /\ \A j \in Minis \ {i} : MiniState(j)' = MiniState(j)]_vars

\* C21 witness: the render of one instance threw while the generation
\* of another instance was in flight; the first shows the error, the
\* second is still loading without error.
C21_Witness ==
  /\ lastMiniOp.op = "settle"
  /\ lastMiniOp.render.called
  /\ ~lastMiniOp.render.returned
  /\ hasError[lastMiniOp.inst]
  /\ thumbDataUrl[lastMiniOp.inst] = NoImage
  /\ \E j \in Minis \ {lastMiniOp.inst} : loading[j] > 0 /\ ~hasError[j]

\* C22: once no session is live, nothing the sessions loaded or created
\* for a model they disposed at teardown is left undisposed: no loaded
\* original, snapshot clone, reset clone or highlight material was let go
\* of without dispose().
C22_TeardownDisposesEverything ==
  sceneRef = 0 =>
    \A o \in ObjIds :
      (objs[o].made /\ objs[o].geometryDisposed) => objs[o].dropped = {}

\* The model root a session attaches: the isolated part it was given,
\* or else the group it loaded from modelUrl.
OwnRoot(s) == IF sess[s].iso # 0 THEN sess[s].iso ELSE s

\* C23: the scene of a session holds at most one model root: the isolated
\* part if the session was given one, else the whole model it loaded;
\* never both, never the other one.
C23_OneRootPerScene ==
  \A s \in Sessions : SceneObjs(objs, s) \subseteq {OwnRoot(s)}

\* C23 witness: a session that showed the whole model was followed by a
\* session given an isolated part; the live scene holds the part alone.
C23_Witness ==
  /\ sceneRef > 1
  /\ sess[sceneRef].iso # 0
  /\ SceneObjs(objs, sceneRef) = {sess[sceneRef].iso}
  /\ objs[sceneRef - 1].made
  /\ sess[sceneRef - 1].iso = 0

\* C24: an object is disposed by one owner only, and never while it is
\* a child of a scene.
C24_AttachedModelOwnedBySession ==
  \A o \in ObjIds :
    /\ Cardinality(objs[o].disposedBy) <= 1
    /\ ~objs[o].disposedAttached

C25_LatestLoadWins ==
  [][\A k \in 1..MaxStlLoads :
       (stlLoads[k].pc = "pending" /\ stlLoads'[k].pc = "attached")
       => /\ k = nStlLoads
          /\ stlPhase = "mounted"]_vars

\* C26: capturing the attached model again leaves every entry the
\* snapshot store already has as it is.
C26_CaptureOnlyFillsGaps ==
  sceneRef # 0 =>
    LET I0 == sess[sceneRef]
    IN  I0.mesh # 0 =>
          \A k \in DOMAIN I0.originalMaterials :
            collectOriginalMaterials(objs, I0.mesh, I0.originalMaterials)[k]
              = I0.originalMaterials[k]

C29_SelectionWithinRoot ==
  (lastOp.op = "click" /\ lastOp.node # 0 /\ LiveMesh # 0 /\ ~thumbnailMode)
  => LET sel == ClimbToPart(objs, LiveMesh, lastOp.node)
     IN  \/ sel = objs[LiveMesh].root
         \/ /\ sel # TheScene
            /\ NodeParent(objs[LiveMesh].url, sel) = objs[LiveMesh].root

\* C30: a framing that changes the extent the camera is fitted to
\* changes the near and the far plane in the same proportion.
C30_ClipPlanesFollowExtent ==
  [][\A s \in Sessions :
       (sess[s].camDim # 0 /\ sess'[s].camDim # 0
          /\ sess'[s].camDim # sess[s].camDim)
       => /\ sess'[s].camNear * sess[s].camDim = sess[s].camNear * sess'[s].camDim
          /\ sess'[s].camFar * sess[s].camDim = sess[s].camFar * sess'[s].camDim]_vars

\* C31: getSelectedPartName() gives a name only while a model is attached
\* to the live session and the meshes of a node with that part identity
\* (compared without case and surrounding blanks) carry the highlight.
C31_SelectedNameIsHighlighted ==
  currentSelectedPart # Null =>
    /\ LiveMesh # 0
    /\ \E n \in NodesUnder(objs[LiveMesh].url, objs[LiveMesh].root) :
         /\ NodeName(objs[LiveMesh].url, n) # <<>>
         /\ cleanNodeName(NodeName(objs[LiveMesh].url, n))
              = Trim(ToLowerCase(currentSelectedPart))
         /\ MeshesUnder(objs[LiveMesh].url, n) # {}
         /\ MeshesUnder(objs[LiveMesh].url, n) \subseteq Highlighted(LiveMesh)

\* C32: isModelLoaded() is true exactly when a model is attached to the
\* scene of the live session.
C32_LoadedIffAttached ==
  isModelLoaded <=> (sceneRef # 0 /\ SceneObjs(objs, sceneRef) # {})

\* C33: when the load of the live session completes while the
\* selectedPartName prop names a part of the loaded model, the meshes of
\* that part are highlighted and getSelectedPartName() gives the name.
C33_PendingSelectionAppliedAtLoad ==
  ( /\ lastOp.op = "resolve"
    /\ lastOp.node = sceneRef
    /\ LiveMesh # 0
    /\ isolatedPart = 0
    /\ ~thumbnailMode
    /\ selectedPartName # Null
    /\ findNodeByBaseName(objs, LiveMesh, selectedPartName) # 0 )
  => LET target == findNodeByBaseName(objs, LiveMesh, selectedPartName)
     IN  /\ MeshesUnder(objs[LiveMesh].url, target) \subseteq Highlighted(LiveMesh)
         /\ currentSelectedPart = selectedPartName

\* C34: while the component is mounted its container holds no canvas but
\* the one of the live session.
C34_OneCanvasPerContainer ==
  mounted => \A s \in Sessions : sess[s].canvasInContainer => s = sceneRef

\* The part of the attached model that is selected: the node the name
\* getSelectedPartName() gives stands for, its meshes being the highlighted
\* ones.  0: none.
SelectedNode ==
  IF LiveMesh = 0 \/ currentSelectedPart = Null THEN 0
  ELSE LET n == findNodeByBaseName(objs, LiveMesh, currentSelectedPart)
       IN  IF n # 0 /\ MeshesUnder(objs[LiveMesh].url, n) # {}
              /\ Highlighted(LiveMesh) = MeshesUnder(objs[LiveMesh].url, n)
           THEN n ELSE 0

\* C35: a click on a mesh of the selected part deselects it: no name is
\* selected, onPartSelected(null) is reported, no mesh is highlighted and
\* the camera frames the whole model.
C35_ClickSelectedPartTogglesOff ==
  [][( /\ lastOp'.op = "click"
       /\ lastOp'.node # 0
       /\ ~thumbnailMode
       /\ isolatedPart = 0
       /\ SelectedNode # 0
       /\ ClimbToPart(objs, LiveMesh, lastOp'.node) = SelectedNode )
     => /\ currentSelectedPart' = Null
        /\ lastPartSelected' = Null
        /\ Highlighted(LiveMesh)' = {}
        /\ Framed(sceneRef, LiveMesh, objs[LiveMesh].root)']_vars

\* C36: between two clicks on "Ver Componentes" a row calls
\* getTopLevelNodes at most once, whatever the call returns.
C36_OneHierarchyCallPerExpansion ==
  \A p \in Pecas : expansionCalls[p] <= 1

\* C37: when a generation for a part has ended, by storing the image or
\* in the catch block, the model it loaded to extract the part from is
\* disposed.
C37_PartThumbnailDisposesFullModel ==
  ( /\ lastMiniOp.op \in {"settle", "finish"}
    /\ lastMiniOp.op = "settle" => ~lastMiniOp.render.returned
    /\ lastMiniOp.loaded
    /\ MiniPart(lastMiniOp.inst) # <<>> )
  => lastMiniOp.modelGroupDisposed

\* C38: two different pairs (url, partName) never have the same cache
\* key.
C38_CacheKeyInjective ==
  \A r1, r2 \in keyRequests : r1.key = r2.key => r1 = r2

====
